---- MODULE Spec2Model ----
(***************************************************************************)
(* Model of the aggregation core of terradart-api                          *)
(* (src/city_detail/services.py): cache-key normalisation, the geocoder    *)
(* fallback strategy, the cache-aside provider adapters, the city detail   *)
(* resolver get_city_detail and the region resolver                        *)
(* resolve_city_for_region.                                                *)
(*                                                                         *)
(* Python strings that the code inspects character by character (city,     *)
(* state, country) are sequences of one-character strings.  Python None is *)
(* None for such strings and NoneObj for dictionaries.  Dictionaries are   *)
(* functions from key names to values.                                     *)
(***************************************************************************)
EXTENDS Integers, Sequences, FiniteSets, TLC

VARIABLES
    cache,      \* the Django cache: key -> value, for the keys present
    clients,    \* the module globals _amadeus_client and _llm_client (set or not)
    cfg,        \* feature flags of settings and presence of the API credentials
    up,         \* the upstream behaviour when it is held fixed, else Unfixed
    pc,         \* "idle", or "done" when a request has produced its result
    last        \* the request just handled: arguments, result and effects

vars == <<cache, clients, cfg, up, pc, last>>

----------------------------------------------------------------------------
(* Values *)

None == <<"None">>

NoneObj == [none |-> TRUE]

Null == "null"

\* A value that is not a string (the integer 123).
Number123 == <<"int:123">>

NonStrings == {None, Number123}

\* isinstance(value, str)
IsStr(value) == value \notin NonStrings

Truthy(s) == s # None /\ s # <<>>

ALLOWED_SECTIONS == <<"base", "summary", "weather", "activities", "places">>

Range(seq) == {seq[i] : i \in 1..Len(seq)}

DEFAULT_PLACES_RADIUS == 10

PLACES_RADIUS_CAP == 100000

DEFAULT_STATUS == 502

----------------------------------------------------------------------------
(* Strings *)

RECURSIVE Join(_, _)
Join(parts, sep) ==
    IF Len(parts) = 0 THEN <<>>
    ELSE IF Len(parts) = 1 THEN parts[1]
    ELSE parts[1] \o sep \o Join(Tail(parts), sep)

CommaSpace == <<",", " ">>

LowerChar(c) ==
    CASE c = "A" -> "a"
      [] c = "C" -> "c"
      [] c = "Q" -> "q"
      [] c = "T" -> "t"
      [] c = "V" -> "v"
      [] c = "X" -> "x"
      [] c = "N" -> "n"
      [] c = "Y" -> "y"
      [] c = "U" -> "u"
      [] c = "S" -> "s"
      [] c = "B" -> "b"
      [] c = "W" -> "w"
      [] c = "P" -> "p"
      [] OTHER -> c

Lower(s) == [i \in 1..Len(s) |-> LowerChar(s[i])]

RECURSIVE LStrip(_)
LStrip(s) == IF Len(s) > 0 /\ s[1] = " " THEN LStrip(Tail(s)) ELSE s

RECURSIVE RStrip(_)
RStrip(s) ==
    IF Len(s) > 0 /\ s[Len(s)] = " " THEN RStrip(SubSeq(s, 1, Len(s) - 1)) ELSE s

Strip(s) == RStrip(LStrip(s))

\* urllib.parse.quote_plus on one character: letters, digits and "_.-~" are
\* safe, a space becomes "+", anything else is percent-encoded.
\* Variant: the key separator ":" is left as it is.
QuoteCharColonSafe(c) ==
    CASE c = " " -> <<"+">>
      [] c = "+" -> <<"%", "2", "B">>
      [] c = "%" -> <<"%", "2", "5">>
      [] c = "," -> <<"%", "2", "C">>
      [] OTHER -> <<c>>

QuoteChar(c) ==
    CASE c = " " -> <<"+">>
      [] c = "+" -> <<"%", "2", "B">>
      [] c = "%" -> <<"%", "2", "5">>
      [] c = "," -> <<"%", "2", "C">>
      [] c = ":" -> <<"%", "3", "A">>
      [] OTHER -> <<c>>

RECURSIVE QuotePlus(_)
QuotePlus(s) == IF Len(s) = 0 THEN <<>> ELSE QuoteChar(s[1]) \o QuotePlus(Tail(s))

_normalize_cache_part(value) ==
    IF ~IsStr(value) THEN <<>>
    ELSE LET normalized == Lower(Strip(value))
         IN  IF normalized = <<>> THEN <<>> ELSE QuotePlus(normalized)

----------------------------------------------------------------------------
(* Cache facade and the context threaded through one request *)

CacheHas(c, key) == key \in DOMAIN c

CacheSet(st, key, value) ==
    [st EXCEPT !.cache = (key :> value) @@ st.cache,
               !.writes = Append(st.writes, key)]

Called(st, call) == [st EXCEPT !.calls = Append(st.calls, call)]

With(st, ret) == [ret |-> ret, st |-> st]

----------------------------------------------------------------------------
(* Upstream stubs.  One request sees one environment env:                  *)
(*   env.geo      the geocoder's answer to its 1st, 2nd and 3rd call       *)
(*   env.details  restcountries /alpha answer                              *)
(*   env.llm, env.weather, env.amadeus, env.fsq                            *)
(*                HTTP status of the provider: HTTP_OK, an error status or *)
(*                NO_RESPONSE for a transport failure without a response   *)
(***************************************************************************)

HTTP_OK == 200

NO_RESPONSE == 0

StubLocation == [latitude |-> 40, longitude |-> -74]

CountryInfo == [name |-> [common |-> <<"U", "s", "a">>], region |-> "Americas"]

SummaryText == "summary"

WeatherPayload == [current |-> "current", next_day |-> "next_day", raw |-> "raw"]

\* A Python value that may be a string of markup: a str is the sequence of
\* its tokens (start tags with their attributes, end tags, text).
Html(tokens) == [type |-> "str", tokens |-> tokens]

StartTag(tag, attrs) == [kind |-> "start", tag |-> tag, attrs |-> attrs]

EndTag(tag) == [kind |-> "end", tag |-> tag]

Text(text) == [kind |-> "text", text |-> text]

\* An attribute with the scheme of its value ("" when the value has none).
Attr(name, scheme) == [name |-> name, scheme |-> scheme]

RawDescription ==
    Html(<< StartTag("script", {}), Text("x"), EndTag("script"),
            StartTag("b", {}), Text("hi"), EndTag("b"),
            StartTag("a", {Attr("href", "https"), Attr("onclick", "")}),
            Text("more"), EndTag("a") >>)

RawShortDescription == Html(<< StartTag("img", {Attr("onerror", "")}), Text("short") >>)

RawActivities ==
    [kind |-> "list",
     items |-> << [name |-> "Tour A", description |-> RawDescription,
                   shortDescription |-> RawShortDescription] >>]

PlacesResults == << [name |-> "Central Park"] >>

\* getattr(getattr(exception, "response", None), "status_code", 502)
StatusOf(upstream_status) ==
    IF upstream_status = NO_RESPONSE THEN DEFAULT_STATUS ELSE upstream_status

----------------------------------------------------------------------------
(* Sanitisation filter *)

_ALLOWED_HTML_TAGS == {"b", "strong", "i", "em", "br", "p", "ul", "ol", "li", "a"}

\* tag -> the attribute names allowed on it
_ALLOWED_HTML_ATTRS == [tag \in {"a"} |-> {"href", "title", "rel"}]

\* protocols=["http", "https"]
ALLOWED_PROTOCOLS == {"http", "https"}

\* bleach checks the scheme of the attributes that hold a URI.
UriAttributes == {"href", "src", "action", "cite", "poster"}

\* bleach's attribute filter: the name must be listed for the tag, and a URI
\* value must be relative or use an allowed protocol.
AttrAllowed(tag, attr) ==
    /\ tag \in DOMAIN _ALLOWED_HTML_ATTRS
    /\ attr.name \in _ALLOWED_HTML_ATTRS[tag]
    /\ attr.name \in UriAttributes => attr.scheme \in ALLOWED_PROTOCOLS \cup {""}

\* bleach.clean(tags, attributes, protocols, strip=True) over the tokens: a
\* disallowed tag is removed (its text stays), an allowed start tag keeps its
\* allowed attributes.  The parser's balancing of tags is left out.
RECURSIVE BleachClean(_)
BleachClean(tokens) ==
    IF tokens = <<>> THEN <<>>
    ELSE LET tok == Head(tokens)
             rest == BleachClean(Tail(tokens))
         IN  CASE tok.kind = "text" -> <<tok>> \o rest
               [] tok.kind = "end" ->
                    IF tok.tag \in _ALLOWED_HTML_TAGS THEN <<tok>> \o rest ELSE rest
               [] OTHER ->
                    IF tok.tag \in _ALLOWED_HTML_TAGS
                    THEN << StartTag(tok.tag, {a \in tok.attrs : AttrAllowed(tok.tag, a)}) >>
                           \o rest
                    ELSE rest

\* Variant: allowed tags keep every attribute.
SanitizeHtmlKeepsAttributes(value) ==
    IF value.type # "str" THEN value
    ELSE Html(SelectSeq(value.tokens,
                        LAMBDA tok : tok.kind = "text" \/ tok.tag \in _ALLOWED_HTML_TAGS))

_sanitize_html(value) ==
    IF value.type # "str" THEN value ELSE Html(BleachClean(value.tokens))

\* isinstance(x, list): a list is [kind |-> "list", items |-> ...]
IsList(x) == "kind" \in DOMAIN x /\ x.kind = "list"

\* isinstance(x, dict): a dict is a record of its keys; strings and numbers
\* carry a type field, None is NoneObj.
IsDict(x) == ~IsList(x) /\ "type" \notin DOMAIN x /\ x # NoneObj

\* Variant: the description fields are written into the record passed in.
ActivityAfterInPlace(activity) ==
    IF ~IsDict(activity) THEN activity
    ELSE [k \in DOMAIN activity |->
            IF k \in {"description", "shortDescription"}
            THEN _sanitize_html(activity[k]) ELSE activity[k]]

\* sanitized = dict(activity): the caller's record after the call
ActivityAfter(activity) == activity

_sanitize_activity(activity) ==
    IF ~IsDict(activity) THEN activity
    ELSE [k \in DOMAIN activity |->
            IF k \in {"description", "shortDescription"}
            THEN _sanitize_html(activity[k]) ELSE activity[k]]

RECURSIVE SanitizeItems(_)
\* [_sanitize_activity(item) for item in data if item is not None]
SanitizeItems(items) ==
    IF items = <<>> THEN <<>>
    ELSE IF Head(items) = NoneObj THEN SanitizeItems(Tail(items))
    ELSE <<_sanitize_activity(Head(items))>> \o SanitizeItems(Tail(items))

\* Variant: the payload is handed on as it came.
SanitizeActivitiesPassThrough(data) == data

\* Variant: null entries stay in the list.
SanitizeActivitiesKeepsNull(data) ==
    IF IsList(data)
    THEN [kind |-> "list",
          items |-> [i \in 1..Len(data.items) |-> _sanitize_activity(data.items[i])]]
    ELSE IF IsDict(data) THEN _sanitize_activity(data)
    ELSE data

_sanitize_activities(data) ==
    IF IsList(data) THEN [kind |-> "list", items |-> SanitizeItems(data.items)]
    ELSE IF IsDict(data) THEN _sanitize_activity(data)
    ELSE data

\* The argument of _sanitize_activities after the call.
ArgumentAfter(data) ==
    IF IsList(data)
    THEN [kind |-> "list",
          items |-> [i \in 1..Len(data.items) |-> ActivityAfter(data.items[i])]]
    ELSE ActivityAfter(data)

----------------------------------------------------------------------------
(* Geocoder *)

\* Variant: the 'city, country' attempt is made whenever a country is given.
GeoAttemptsCountryOnly(city, state, country) ==
    LET parts == <<city>> \o (IF Truthy(state) THEN <<state>> ELSE <<>>)
                          \o (IF Truthy(country) THEN <<country>> ELSE <<>>)
        first == << [query |-> Join(parts, CommaSpace), country_codes |-> country] >>
        second == IF Truthy(country)
                  THEN << [query |-> city \o CommaSpace \o country,
                           country_codes |-> country] >>
                  ELSE <<>>
        third == << [query |-> city, country_codes |-> None] >>
    IN  first \o second \o third

GeoAttempts(city, state, country) ==
    LET parts == <<city>> \o (IF Truthy(state) THEN <<state>> ELSE <<>>)
                          \o (IF Truthy(country) THEN <<country>> ELSE <<>>)
        first == << [query |-> Join(parts, CommaSpace), country_codes |-> country] >>
        second == IF Truthy(country) /\ Truthy(state)
                  THEN << [query |-> city \o CommaSpace \o country,
                           country_codes |-> country] >>
                  ELSE <<>>
        third == << [query |-> city, country_codes |-> None] >>
    IN  first \o second \o third

GeocodeFailed == [error |-> [error |-> "Geocoding failed", detail |-> "GeopyError"],
                  error_status |-> 502]

CityNotFound(city, state, country) ==
    [error |-> [error |-> "City not found", city |-> city, state |-> state,
                country |-> country],
     error_status |-> 404]

\* Variant: a timeout aborts like any other geocoder error.
RECURSIVE GeocodeLoopTimeoutFails(_, _, _, _, _, _, _)
GeocodeLoopTimeoutFails(attempts, i, script, st, city, state, country) ==
    IF i > Len(attempts) THEN With(st, CityNotFound(city, state, country))
    ELSE LET st1 == Called(st, [api |-> "geocoder", query |-> attempts[i].query,
                                country_codes |-> attempts[i].country_codes,
                                outcome |-> script[i]])
         IN  CASE script[i] \in {"error", "timeout"} -> With(st1, GeocodeFailed)
               [] script[i] = "loc" -> With(st1, [location |-> StubLocation])
               [] OTHER -> GeocodeLoopTimeoutFails(attempts, i + 1, script, st1,
                                                   city, state, country)

RECURSIVE GeocodeLoop(_, _, _, _, _, _, _)
GeocodeLoop(attempts, i, script, st, city, state, country) ==
    IF i > Len(attempts) THEN With(st, CityNotFound(city, state, country))
    ELSE LET st1 == Called(st, [api |-> "geocoder", query |-> attempts[i].query,
                                country_codes |-> attempts[i].country_codes,
                                outcome |-> script[i]])
         IN  CASE script[i] = "error" -> With(st1, GeocodeFailed)
               [] script[i] = "loc" -> With(st1, [location |-> StubLocation])
               [] OTHER -> GeocodeLoop(attempts, i + 1, script, st1, city, state, country)

_geocode_city(city, state, country, script, st) ==
    GeocodeLoop(GeoAttempts(city, state, country), 1, script, st, city, state, country)

----------------------------------------------------------------------------
(* Provider adapters.  Each takes the request context st (cache, clients,  *)
(* calls and cache writes so far) and returns With(st', result).           *)

\* str(exception)
DetailOf(upstream_status) ==
    CASE upstream_status = NO_RESPONSE -> "connection error"
      [] upstream_status = 503 -> "503 Server Error"
      [] upstream_status = 404 -> "404 Client Error"
      [] upstream_status = 429 -> "429 Too Many Requests"
      [] OTHER -> "error"

FailureResult(message, upstream_status) ==
    [error |-> [error |-> message, detail |-> DetailOf(upstream_status)],
     error_status |-> StatusOf(upstream_status)]

\* Variant: a failed fetch leaves a placeholder in the cache.
CountryDetailsCachesFailure(iso2_country_code, env, st) ==
    IF ~Truthy(iso2_country_code) THEN With(st, NoneObj)
    ELSE LET cache_key == <<"country-info", Lower(iso2_country_code)>>
         IN  IF CacheHas(st.cache, cache_key) THEN With(st, st.cache[cache_key])
             ELSE LET st1 == Called(st, [api |-> "restcountries_alpha",
                                         code |-> iso2_country_code,
                                         outcome |-> env.details])
                  IN  IF env.details = HTTP_OK
                      THEN With(CacheSet(st1, cache_key, CountryInfo), CountryInfo)
                      ELSE With(CacheSet(st1, cache_key, NoneObj), NoneObj)

_get_country_details(iso2_country_code, env, st) ==
    IF ~Truthy(iso2_country_code) THEN With(st, NoneObj)
    ELSE LET cache_key == <<"country-info", Lower(iso2_country_code)>>
         IN  IF CacheHas(st.cache, cache_key) THEN With(st, st.cache[cache_key])
             ELSE LET st1 == Called(st, [api |-> "restcountries_alpha",
                                         code |-> iso2_country_code,
                                         outcome |-> env.details])
                  IN  IF env.details = HTTP_OK
                      THEN With(CacheSet(st1, cache_key, CountryInfo), CountryInfo)
                      ELSE With(st1, NoneObj)

\* Returns the context with the module-level client set, and whether a client
\* is available.
_get_llm_client(config, st) ==
    IF st.clients.llm THEN With(st, TRUE)
    ELSE IF ~config.llm_key THEN With(st, FALSE)
    ELSE With([st EXCEPT !.clients.llm = TRUE,
                         !.constructed = Append(st.constructed, "llm")], TRUE)

\* Variant: the credentials are checked before the feature flag.
AmadeusClientCredentialsFirst(config, st) ==
    IF st.clients.amadeus THEN With(st, [client |-> TRUE])
    ELSE IF ~config.amadeus_creds
         THEN With(st, [error |-> [error |-> "Internal Server Error"], error_status |-> 500])
    ELSE IF ~config.amadeus_enabled THEN With(st, [disabled |-> TRUE])
    ELSE With([st EXCEPT !.clients.amadeus = TRUE,
                         !.constructed = Append(st.constructed, "amadeus")],
              [client |-> TRUE])

_get_amadeus_client(config, st) ==
    IF ~config.amadeus_enabled THEN With(st, [disabled |-> TRUE])
    ELSE IF st.clients.amadeus THEN With(st, [client |-> TRUE])
    ELSE IF ~config.amadeus_creds
         THEN With(st, [error |-> [error |-> "Internal Server Error"], error_status |-> 500])
    ELSE With([st EXCEPT !.clients.amadeus = TRUE,
                         !.constructed = Append(st.constructed, "amadeus")],
              [client |-> TRUE])

_get_activities_by_coordinates(latitude, longitude, radius, config, env, st) ==
    LET cache_key == <<"activities", latitude, longitude, radius>>
    IN  IF CacheHas(st.cache, cache_key) THEN With(st, [data |-> st.cache[cache_key]])
        ELSE LET c == _get_amadeus_client(config, st)
             IN  IF "disabled" \in DOMAIN c.ret
                 THEN With(c.st, [data |-> [kind |-> "list", items |-> <<>>]])
                 ELSE IF "error" \in DOMAIN c.ret THEN With(c.st, c.ret)
                 ELSE LET st1 == Called(c.st, [api |-> "amadeus", latitude |-> latitude,
                                               longitude |-> longitude, radius |-> radius,
                                               outcome |-> env.amadeus])
                      IN  IF env.amadeus = HTTP_OK
                          THEN With(CacheSet(st1, cache_key, RawActivities),
                                    [data |-> RawActivities])
                          ELSE With(st1, FailureResult("Failed to fetch activities",
                                                       env.amadeus))

Min(a, b) == IF a <= b THEN a ELSE b

\* Variant: the radius is converted to metres and not capped.
RadiusMetersUncapped(radius) == radius * 1000

\* radius_meters = min(radius * 1000, 100000)
RadiusMeters(radius) == Min(radius * 1000, PLACES_RADIUS_CAP)

\* Variant: a missing API key is treated like a disabled provider.
PlacesMissingKeyIsEmpty(latitude, longitude, radius, config, env, st) ==
    LET cache_key == <<"places", latitude, longitude, radius>>
    IN  IF CacheHas(st.cache, cache_key) THEN With(st, [data |-> st.cache[cache_key]])
        ELSE IF ~config.fsq_enabled \/ ~config.fsq_key THEN With(st, [data |-> <<>>])
        ELSE LET radius_meters == RadiusMeters(radius)
                 st1 == Called(st, [api |-> "foursquare", latitude |-> latitude,
                                    longitude |-> longitude, radius |-> radius_meters,
                                    outcome |-> env.fsq])
             IN  IF env.fsq = HTTP_OK
                 THEN With(CacheSet(st1, cache_key, PlacesResults), [data |-> PlacesResults])
                 ELSE With(st1, FailureResult("Failed to fetch places", env.fsq))

_get_places_by_coordinates(latitude, longitude, radius, config, env, st) ==
    LET cache_key == <<"places", latitude, longitude, radius>>
    IN  IF CacheHas(st.cache, cache_key) THEN With(st, [data |-> st.cache[cache_key]])
        ELSE IF ~config.fsq_enabled THEN With(st, [data |-> <<>>])
        ELSE IF ~config.fsq_key
             THEN With(st, [error |-> [error |-> "Missing Foursquare API key"],
                            error_status |-> 500])
        ELSE LET radius_meters == RadiusMeters(radius)
                 st1 == Called(st, [api |-> "foursquare", latitude |-> latitude,
                                    longitude |-> longitude, radius |-> radius_meters,
                                    outcome |-> env.fsq])
             IN  IF env.fsq = HTTP_OK
                 THEN With(CacheSet(st1, cache_key, PlacesResults), [data |-> PlacesResults])
                 ELSE With(st1, FailureResult("Failed to fetch places", env.fsq))

_get_weather_by_coordinates(latitude, longitude, env, st) ==
    LET st1 == Called(st, [api |-> "open_meteo", latitude |-> latitude,
                           longitude |-> longitude, outcome |-> env.weather])
    IN  IF env.weather = HTTP_OK
        THEN With(st1, [data |-> WeatherPayload])
        ELSE With(st1, FailureResult("Failed to fetch weather", env.weather))

\* f"city-summary:{cache_city}:{cache_state}:{cache_country}"; the literal
\* prefix is one token, the rest is character by character.
SummaryCacheKey(city, state, country) ==
    <<"city-summary", ":">> \o _normalize_cache_part(city) \o <<":">>
        \o _normalize_cache_part(state) \o <<":">> \o _normalize_cache_part(country)

_get_city_summary(city, state, country, config, env, st) ==
    IF ~config.llm_enabled THEN With(st, [data |-> Null])
    ELSE
    LET cache_key == SummaryCacheKey(city, state, country)
    IN  IF CacheHas(st.cache, cache_key) THEN With(st, [data |-> st.cache[cache_key]])
        ELSE
        LET c == _get_llm_client(config, st)
        IN  IF ~c.ret
            THEN With(c.st, [error |-> [error |-> "Missing LLM API key",
                                        detail |-> "Set LLM_API_KEY"],
                             error_status |-> 500])
            ELSE
            LET d == IF Truthy(country) THEN _get_country_details(country, env, c.st)
                     ELSE With(c.st, NoneObj)
                country_name ==
                    IF ~Truthy(country) THEN None
                    ELSE IF d.ret # NoneObj THEN d.ret.name.common ELSE country
                st1 == Called(d.st, [api |-> "llm", city |-> city, state |-> state,
                                     country_name |-> country_name,
                                     outcome |-> env.llm])
            IN  IF env.llm = HTTP_OK
                THEN With(CacheSet(st1, cache_key, SummaryText), [data |-> SummaryText])
                ELSE With(st1, FailureResult("Failed to generate summary", env.llm))

----------------------------------------------------------------------------
(* City detail resolver *)

\* Variant: a failed section also leaves a null entry in response_data.
RecordKeepsKey(acc, section, r) ==
    IF "error" \in DOMAIN r.ret
    THEN [st |-> [r.st EXCEPT !.results = (section :> r.ret) @@ @],
          data |-> (section :> Null) @@ acc.data,
          errors |-> (section :> r.ret.error) @@ acc.errors]
    ELSE [st |-> [r.st EXCEPT !.results = (section :> r.ret) @@ @],
          data |-> (section :> (IF section = "activities"
                                THEN _sanitize_activities(r.ret.data)
                                ELSE r.ret.data)) @@ acc.data,
          errors |-> acc.errors]

\* Variant: only the first section error is kept.
RecordFirstErrorOnly(acc, section, r) ==
    IF "error" \in DOMAIN r.ret
    THEN [st |-> [r.st EXCEPT !.results = (section :> r.ret) @@ @],
          data |-> acc.data,
          errors |-> IF DOMAIN acc.errors = {}
                     THEN (section :> r.ret.error) @@ acc.errors ELSE acc.errors]
    ELSE [st |-> [r.st EXCEPT !.results = (section :> r.ret) @@ @],
          data |-> (section :> (IF section = "activities"
                                THEN _sanitize_activities(r.ret.data)
                                ELSE r.ret.data)) @@ acc.data,
          errors |-> acc.errors]

\* One section's adapter result r recorded into errors or response_data (the
\* activities payload goes through _sanitize_activities).
Record(acc, section, r) ==
    IF "error" \in DOMAIN r.ret
    THEN [st |-> [r.st EXCEPT !.results = (section :> r.ret) @@ @],
          data |-> acc.data,
          errors |-> (section :> r.ret.error) @@ acc.errors]
    ELSE [st |-> [r.st EXCEPT !.results = (section :> r.ret) @@ @],
          data |-> (section :> (IF section = "activities"
                                THEN _sanitize_activities(r.ret.data)
                                ELSE r.ret.data)) @@ acc.data,
          errors |-> acc.errors]

\* Variant: a missing includes argument selects nothing.
IncludeSetNoneIsEmpty(includes) ==
    IF includes = None THEN {}
    ELSE {section \in Range(includes) : section \in Range(ALLOWED_SECTIONS)}

IncludeSet(includes) ==
    IF includes = None THEN Range(ALLOWED_SECTIONS)
    ELSE {section \in Range(includes) : section \in Range(ALLOWED_SECTIONS)}

\* f"city-detail-base:{cache_city}:{cache_state}:{cache_country}"
BaseCacheKey(city, state, country) ==
    <<"city-detail-base", ":">> \o _normalize_cache_part(city) \o <<":">>
        \o _normalize_cache_part(state) \o <<":">> \o _normalize_cache_part(country)

MissingCoordinates(city) ==
    [error |-> [error |-> "Missing coordinates for city", city |-> city],
     error_status |-> 500]

\* Variant: the base record is merged whatever was requested.
BaseMergeAlways(include_set, base_data) == base_data

\* response_data = {} or {**base_data}
BaseMerge(include_set, base_data) ==
    IF "base" \in include_set THEN base_data ELSE <<>>

\* Variant: a section error aborts the request.
AggregateAborts(acc) ==
    With(acc.st, IF DOMAIN acc.errors # {}
                 THEN [error |-> [error |-> "Section failed"], error_status |-> 502]
                 ELSE [data |-> acc.data])

\* result = {"data": response_data}; if errors: result["errors"] = errors
Aggregate(acc) ==
    With(acc.st, IF DOMAIN acc.errors # {}
                 THEN [data |-> acc.data, errors |-> acc.errors]
                 ELSE [data |-> acc.data])

\* Variant: the geocoder's status is replaced by 500.
GeocodeAbortAs500(g) == With(g.st, [error |-> g.ret.error, error_status |-> 500])

\* if "error" in geocode_result: return geocode_result
GeocodeAbort(g) == g

\* The sections in program order; req is the request's arguments, b the base
\* record and acc the response_data, errors and context so far.
SummarySection(req, b, config, env, acc) ==
    IF "summary" \in IncludeSet(req.includes)
    THEN Record(acc, "summary",
                _get_city_summary(req.city, req.state, req.country, config, env, acc.st))
    ELSE acc

WeatherSection(req, b, config, env, acc) ==
    IF "weather" \in IncludeSet(req.includes)
    THEN Record(acc, "weather",
                _get_weather_by_coordinates(b.coordinates.latitude,
                                            b.coordinates.longitude, env, acc.st))
    ELSE acc

ActivitiesSection(req, b, config, env, acc) ==
    IF "activities" \in IncludeSet(req.includes)
    THEN Record(acc, "activities",
                _get_activities_by_coordinates(b.coordinates.latitude,
                                               b.coordinates.longitude, req.radius,
                                               config, env, acc.st))
    ELSE acc

PlacesSection(req, b, config, env, acc) ==
    IF "places" \in IncludeSet(req.includes)
    THEN Record(acc, "places",
                _get_places_by_coordinates(b.coordinates.latitude,
                                           b.coordinates.longitude,
                                           DEFAULT_PLACES_RADIUS, config, env, acc.st))
    ELSE acc

Sections(req, b, config, env, st) ==
    IF DOMAIN b.coordinates # {"latitude", "longitude"}
    THEN With(st, MissingCoordinates(req.city))
    ELSE Aggregate(
           PlacesSection(req, b, config, env,
             ActivitiesSection(req, b, config, env,
               WeatherSection(req, b, config, env,
                 SummarySection(req, b, config, env,
                   [st |-> st,
                    data |-> BaseMerge(IncludeSet(req.includes), b),
                    errors |-> <<>>])))))

\* base_data = {...}; cache.set(base_cache_key, base_data, ...)
StoreBase(req, config, env, b, st) ==
    Sections(req, b, config, env,
             CacheSet(st, BaseCacheKey(req.city, req.state, req.country), b))

BaseRecord(req, location, country_details) ==
    [city |-> req.city,
     coordinates |-> [latitude |-> location.latitude, longitude |-> location.longitude],
     state |-> req.state,
     country |-> req.country,
     country_details |-> country_details]

AfterCountryDetails(req, config, env, location, d) ==
    StoreBase(req, config, env, BaseRecord(req, location, d.ret), d.st)

AfterGeocode(req, config, env, g) ==
    IF "error" \in DOMAIN g.ret THEN GeocodeAbort(g)
    ELSE AfterCountryDetails(req, config, env, g.ret.location,
                             _get_country_details(req.country, env, g.st))

ResolveBase(req, config, env, st) ==
    IF CacheHas(st.cache, BaseCacheKey(req.city, req.state, req.country))
    THEN Sections(req, st.cache[BaseCacheKey(req.city, req.state, req.country)],
                  config, env, st)
    ELSE AfterGeocode(req, config, env,
                      _geocode_city(req.city, req.state, req.country, env.geo, st))

get_city_detail(city, radius, state, country, includes, config, env, st) ==
    ResolveBase([city |-> city, radius |-> radius, state |-> state,
                 country |-> country, includes |-> includes], config, env, st)

----------------------------------------------------------------------------
(* Region resolver.  random.choice and the upstream answers are choices, so  *)
(* each operator yields the set of its possible outcomes With(st', result). *)
(* world is what the upstreams serve: world.countries and world.states are  *)
(* JSON payloads, JsonList(items) or JsonDict.                               *)

JsonList(items) == [kind |-> "list", items |-> items]

JsonDict == [kind |-> "dict"]

\* isinstance(x, list) and x
NonEmptyList(payload) == payload.kind = "list" /\ payload.items # <<>>

Drew(st, of, index) == [st EXCEPT !.draws = Append(st.draws, [of |-> of, index |-> index])]

\* Countries are dicts here, as restcountries serves them.
_eligible_country(country) ==
    ~("population" \in DOMAIN country /\ country.population <= 0)

\* Variant: the first draw is returned, eligible or not.
PickLoopAnyDraw(items, n, st) ==
    { With(Drew(st, "country", i), items[i]) : i \in 1..Len(items) }

\* The first n draws return an eligible candidate; the draw after them returns
\* whatever it hits.
RECURSIVE PickLoop(_, _, _)
PickLoop(items, n, st) ==
    IF n = 0
    THEN { With(Drew(st, "country", i), items[i]) : i \in 1..Len(items) }
    ELSE UNION { IF _eligible_country(items[i])
                 THEN { With(Drew(st, "country", i), items[i]) }
                 ELSE PickLoop(items, n - 1, Drew(st, "country", i))
                 : i \in 1..Len(items) }

_pick_country(countries, st) ==
    IF ~NonEmptyList(countries) THEN { With(st, NoneObj) }
    ELSE PickLoop(countries.items, Len(countries.items), st)

RegionStatuses == {HTTP_OK, 404, NO_RESPONSE}

\* Variant: the list is fetched and stored anew on every call.
CountriesAlwaysFetched(region, world, st) ==
    { IF status = HTTP_OK
      THEN With(CacheSet(Called(st, [api |-> "restcountries_region",
                                     region |-> region, outcome |-> status]),
                         <<"countries", Lower(region)>>, world.countries),
                [data |-> world.countries])
      ELSE With(Called(st, [api |-> "restcountries_region", region |-> region,
                            outcome |-> status]),
                [error |-> [error |-> "Failed to fetch region data",
                            detail |-> DetailOf(status)],
                 error_status |-> 502])
      : status \in RegionStatuses }

_get_countries_by_region(region, world, st) ==
    IF CacheHas(st.cache, <<"countries", Lower(region)>>)
    THEN { With(st, [data |-> st.cache[<<"countries", Lower(region)>>]]) }
    ELSE { IF status = HTTP_OK
           THEN With(CacheSet(Called(st, [api |-> "restcountries_region",
                                          region |-> region, outcome |-> status]),
                              <<"countries", Lower(region)>>, world.countries),
                     [data |-> world.countries])
           ELSE With(Called(st, [api |-> "restcountries_region", region |-> region,
                                 outcome |-> status]),
                     [error |-> [error |-> "Failed to fetch region data",
                                 detail |-> DetailOf(status)],
                      error_status |-> 502])
           : status \in RegionStatuses }

CscStatuses == {HTTP_OK, 503}

_get_states_by_country(iso2_country_code, config, world, st) ==
    IF ~Truthy(iso2_country_code) \/ ~config.csc_key THEN { With(st, JsonList(<<>>)) }
    ELSE IF CacheHas(st.cache, <<"states", Lower(iso2_country_code)>>)
    THEN { With(st, st.cache[<<"states", Lower(iso2_country_code)>>]) }
    ELSE { IF status = HTTP_OK
           THEN With(CacheSet(Called(st, [api |-> "csc_states",
                                          country |-> iso2_country_code,
                                          outcome |-> status]),
                              <<"states", Lower(iso2_country_code)>>, world.states),
                     world.states)
           ELSE With(Called(st, [api |-> "csc_states", country |-> iso2_country_code,
                                 outcome |-> status]),
                     JsonList(<<>>))
           : status \in CscStatuses }

\* The city list the directory serves for a state.
WorldCities(iso2_state_code) ==
    CASE iso2_state_code = <<"C", "A">> -> JsonList(<< [name |-> "Los Angeles"] >>)
      [] iso2_state_code = <<"T", "X">> -> JsonList(<< [name |-> "Austin"] >>)
      [] OTHER -> JsonList(<< [id |-> 7] >>)

_get_cities_by_state(iso2_country_code, iso2_state_code, config, world, st) ==
    IF ~Truthy(iso2_country_code) \/ ~Truthy(iso2_state_code) \/ ~config.csc_key
    THEN { With(st, JsonList(<<>>)) }
    ELSE IF CacheHas(st.cache, <<"state-cities", Lower(iso2_country_code),
                                 Lower(iso2_state_code)>>)
    THEN { With(st, st.cache[<<"state-cities", Lower(iso2_country_code),
                               Lower(iso2_state_code)>>]) }
    ELSE { IF status = HTTP_OK
           THEN With(CacheSet(Called(st, [api |-> "csc_cities",
                                          country |-> iso2_country_code,
                                          state |-> iso2_state_code,
                                          outcome |-> status]),
                              <<"state-cities", Lower(iso2_country_code),
                                Lower(iso2_state_code)>>,
                              WorldCities(iso2_state_code)),
                     WorldCities(iso2_state_code))
           ELSE With(Called(st, [api |-> "csc_cities", country |-> iso2_country_code,
                                 state |-> iso2_state_code, outcome |-> status]),
                     JsonList(<<>>))
           : status \in CscStatuses }

\* location is not None; a GeopyError (a timeout is one) gives False.
CanGeocodeOutcomes == {"loc", "none", "error"}

_can_geocode(city, state, country_iso2, st) ==
    IF city = Null THEN { With(st, FALSE) }
    ELSE { With(Called(st, [api |-> "geocoder_check", city |-> city, state |-> state,
                            country_codes |-> country_iso2, outcome |-> outcome]),
                outcome = "loc")
           : outcome \in CanGeocodeOutcomes }

\* dict.get(key) for a name or another scalar
Get(dict, key) == IF key \in DOMAIN dict THEN dict[key] ELSE Null

\* dict.get(key) for an ISO code, which is a string of characters
GetCode(dict, key) == IF key \in DOMAIN dict THEN dict[key] ELSE None

\* capital_list = country.get("capital") or []; capital_list[0] or None
CapitalCity(country) ==
    IF "capital" \in DOMAIN country /\ country.capital # <<>>
    THEN country.capital[1] ELSE Null

\* Variant: an empty country list is reported as an upstream failure.
NoCountryDataAs502(region) ==
    [error |-> [error |-> "No country data found for region", region |-> region],
     error_status |-> 502]

NoCountryData(region) ==
    [error |-> [error |-> "No country data found for region", region |-> region],
     error_status |-> 404]

NoStatesFound(iso2_country_code) ==
    [error |-> [error |-> "No states found for country", country |-> iso2_country_code],
     error_status |-> 404]

NoCityFound(region, iso2_country_code) ==
    [error |-> [error |-> "No city found for region", region |-> region,
                country |-> iso2_country_code],
     error_status |-> 404]

STATE_DRAWS == 5

NotFound(st) == [st |-> st, random_city |-> Null, state_iso2 |-> None, state_name |-> Null]

\* The loop over range(min(len(states), 5)), n draws left.
RECURSIVE StateLoop(_, _, _, _, _, _)
RECURSIVE AfterCities(_, _, _, _, _, _, _)
RECURSIVE TryCity(_, _, _, _, _, _, _, _)

TryCity(n, states, state_choice, country, config, world, st, candidate) ==
    UNION { IF g.ret
            THEN { [st |-> g.st, random_city |-> Get(candidate, "name"),
                    state_iso2 |-> GetCode(state_choice, "iso2"),
                    state_name |-> Get(state_choice, "name")] }
            ELSE StateLoop(n - 1, states, country, config, world, g.st)
            : g \in _can_geocode(Get(candidate, "name"), Get(state_choice, "name"),
                                 GetCode(country, "cca2"), st) }

AfterCities(n, states, state_choice, country, config, world, c) ==
    IF NonEmptyList(c.ret)
    THEN UNION { TryCity(n, states, state_choice, country, config, world,
                         Drew(c.st, "city", j), c.ret.items[j])
                 : j \in 1..Len(c.ret.items) }
    ELSE StateLoop(n - 1, states, country, config, world, c.st)

StateLoop(n, states, country, config, world, st) ==
    IF n = 0 THEN { NotFound(st) }
    ELSE UNION { IF ~Truthy(GetCode(states[i], "iso2"))
                 THEN StateLoop(n - 1, states, country, config, world,
                                Drew(st, "state", i))
                 ELSE UNION { AfterCities(n, states, states[i], country, config, world, c)
                              : c \in _get_cities_by_state(GetCode(country, "cca2"), states[i].iso2,
                                                           config, world,
                                                           Drew(st, "state", i)) }
                 : i \in 1..Len(states) }

\* if wants_capital: return {"data": {...}}
CapitalResult(region, country, st) ==
    With(st, [data |-> [region |-> region, city |-> CapitalCity(country),
                        iso2_country_code |-> GetCode(country, "cca2"),
                        iso3_country_code |-> Get(country, "cca3")]])

\* Variant: without a state-derived city the result is the 404, capital or not.
AfterLoopNoFallback(region, country, f) ==
    IF f.random_city = Null
    THEN With(f.st, NoCityFound(region, GetCode(country, "cca2")))
    ELSE With(f.st, [data |-> [region |-> region, city |-> f.random_city,
                               iso2_country_code |-> GetCode(country, "cca2"),
                               iso3_country_code |-> Get(country, "cca3"),
                               state_name |-> f.state_name,
                               iso2_state_code |-> f.state_iso2]])

\* The code after the loop: fall back to the capital, else 404.
AfterLoop(region, country, f) ==
    IF f.random_city = Null /\ CapitalCity(country) = Null
    THEN With(f.st, NoCityFound(region, GetCode(country, "cca2")))
    ELSE With(f.st, [data |-> [region |-> region,
                               city |-> IF f.random_city = Null
                                        THEN CapitalCity(country) ELSE f.random_city,
                               iso2_country_code |-> GetCode(country, "cca2"),
                               iso3_country_code |-> Get(country, "cca3"),
                               state_name |-> f.state_name,
                               iso2_state_code |-> f.state_iso2]])

\* Variant: without states the resolver goes on to the capital fallback.
AfterStatesCapitalFallback(region, country, config, world, s) ==
    IF ~NonEmptyList(s.ret) THEN { AfterLoop(region, country, NotFound(s.st)) }
    ELSE { AfterLoop(region, country, f)
           : f \in StateLoop(Min(Len(s.ret.items), STATE_DRAWS), s.ret.items, country,
                             config, world, s.st) }

\* if not isinstance(states, list) or not states: return the 404
AfterStates(region, country, config, world, s) ==
    IF ~NonEmptyList(s.ret) THEN { With(s.st, NoStatesFound(GetCode(country, "cca2"))) }
    ELSE { AfterLoop(region, country, f)
           : f \in StateLoop(Min(Len(s.ret.items), STATE_DRAWS), s.ret.items, country,
                             config, world, s.st) }

\* Variant: the states are fetched before the capital is returned.
AfterPickStatesFirst(region, wants_capital, config, world, p) ==
    IF p.ret = NoneObj THEN { With(p.st, NoCountryData(region)) }
    ELSE UNION { IF wants_capital THEN { CapitalResult(region, p.ret, s.st) }
                 ELSE AfterStates(region, p.ret, config, world, s)
                 : s \in _get_states_by_country(GetCode(p.ret, "cca2"), config, world, p.st) }

AfterPick(region, wants_capital, config, world, p) ==
    IF p.ret = NoneObj THEN { With(p.st, NoCountryData(region)) }
    ELSE IF wants_capital THEN { CapitalResult(region, p.ret, p.st) }
    ELSE UNION { AfterStates(region, p.ret, config, world, s)
                 : s \in _get_states_by_country(GetCode(p.ret, "cca2"), config, world, p.st) }

\* Variant: a failed country-list fetch is treated as an empty list.
CountriesErrorAsEmpty(region, wants_capital, config, world, c) ==
    IF "error" \in DOMAIN c.ret THEN { With(c.st, NoCountryData(region)) }
    ELSE UNION { AfterPick(region, wants_capital, config, world, p)
                 : p \in _pick_country(c.ret.data, c.st) }

\* if "error" in countries_result: return countries_result
AfterCountries(region, wants_capital, config, world, c) ==
    IF "error" \in DOMAIN c.ret THEN { c }
    ELSE UNION { AfterPick(region, wants_capital, config, world, p)
                 : p \in _pick_country(c.ret.data, c.st) }

resolve_city_for_region(region, wants_capital, config, world, st) ==
    UNION { AfterCountries(region, wants_capital, config, world, c)
            : c \in _get_countries_by_region(region, world, st) }

----------------------------------------------------------------------------
(* Inputs *)

MaxIncludes == 1

Cities == { <<"N", "y">>, <<"n", "y">> }

\* <<state, country>> of a request
Regions == { <<None, None>>, << <<"s">>, <<"U", "S">> >> }

Radii == {5}

SectionNames == <<"base", "summary", "weather", "activities", "places", "wikipedia">>

IncludeLists ==
    {None} \cup
    { SelectSeq(SectionNames, LAMBDA n : n \in S) :
        S \in {T \in SUBSET Range(SectionNames) : Cardinality(T) <= MaxIncludes} }

GeoOutcomes == {"loc", "none", "timeout", "error"}

\* What the geocoder answers to the 1st, 2nd and 3rd call of one request.
GeoScripts ==
    { <<"loc", "none", "none">>, <<"timeout", "none", "loc">>,
      <<"none", "timeout", "none">>, <<"none", "error", "none">> }

Configs ==
    { c \in [llm_enabled : BOOLEAN, amadeus_enabled : BOOLEAN, fsq_enabled : BOOLEAN,
             llm_key : BOOLEAN, amadeus_creds : BOOLEAN, fsq_key : BOOLEAN] :
        /\ c.llm_enabled = c.amadeus_enabled /\ c.amadeus_enabled = c.fsq_enabled
        /\ c.llm_key = c.amadeus_creds /\ c.amadeus_creds = c.fsq_key }

\* The environments one request can tell apart: a provider that the request
\* does not consult answers HTTP_OK.
Envs(city, state, country, includes, c) ==
    LET inc == IncludeSet(includes)
        hit == CacheHas(c, BaseCacheKey(city, state, country))
    IN  [geo : IF hit THEN {<<"none", "none", "none">>} ELSE GeoScripts,
         details : IF Truthy(country) THEN {HTTP_OK, 503} ELSE {HTTP_OK},
         llm : IF "summary" \in inc THEN {HTTP_OK, 503} ELSE {HTTP_OK},
         weather : IF "weather" \in inc THEN {HTTP_OK, 503} ELSE {HTTP_OK},
         amadeus : IF "activities" \in inc THEN {HTTP_OK, 429} ELSE {HTTP_OK},
         fsq : IF "places" \in inc THEN {HTTP_OK, NO_RESPONSE} ELSE {HTTP_OK}]

----------------------------------------------------------------------------
(* State machine *)

EmptyCache == <<>>

NoRequest == [op |-> "none"]

Unfixed == [fixed |-> FALSE]

\* Upstream behaviours that are held fixed over a whole run.
FixedEnvs ==
    [geo : {<<"loc", "none", "none">>, <<"timeout", "none", "loc">>},
     details : {HTTP_OK},
     llm : {HTTP_OK},
     weather : {HTTP_OK, 503},
     amadeus : {HTTP_OK},
     fsq : {HTTP_OK, NO_RESPONSE}]

Fresh(c, cl) ==
    [cache |-> c, clients |-> cl, calls |-> <<>>, writes |-> <<>>,
     constructed |-> <<>>, results |-> <<>>, draws |-> <<>>]

Init ==
    /\ cache = EmptyCache
    /\ clients = [amadeus |-> FALSE, llm |-> FALSE]
    /\ cfg \in Configs
    /\ up = Unfixed
    /\ pc = "idle"
    /\ last = NoRequest

InitFixed ==
    /\ cache = EmptyCache
    /\ clients = [amadeus |-> FALSE, llm |-> FALSE]
    /\ cfg \in Configs
    /\ up \in FixedEnvs
    /\ pc = "idle"
    /\ last = NoRequest

\* views.get_city_detail -> services.get_city_detail, the whole handler.
CityDetailRequest ==
    /\ pc = "idle"
    /\ \E city \in Cities, region \in Regions, radius \in Radii,
          includes \in IncludeLists :
         \E env \in (IF up = Unfixed
                      THEN Envs(city, region[1], region[2], includes, cache)
                      ELSE {up}) :
          \E r \in {get_city_detail(city, radius, region[1], region[2], includes, cfg,
                                     env, Fresh(cache, clients))} :
                /\ cache' = r.st.cache
                /\ clients' = r.st.clients
                /\ last' = [op |-> "get_city_detail", city |-> city, radius |-> radius,
                            state |-> region[1], country |-> region[2],
                            includes |-> includes, env |-> env, ret |-> r.ret,
                            calls |-> r.st.calls, writes |-> r.st.writes,
                            results |-> r.st.results, cache_before |-> cache]
    /\ pc' = "done"
    /\ UNCHANGED <<cfg, up>>

\* The response has been returned to the caller.
Respond ==
    /\ pc = "done"
    /\ pc' = "idle"
    /\ last' = NoRequest
    /\ UNCHANGED <<cache, clients, cfg, up>>

\* An entry reaches its TTL (CACHE_TIMEOUT_SECONDS) and is dropped.
Expire ==
    /\ pc = "idle"
    /\ \E key \in DOMAIN cache :
         cache' = [k \in DOMAIN cache \ {key} |-> cache[k]]
    /\ UNCHANGED <<clients, cfg, up, pc, last>>

Next == CityDetailRequest \/ Respond \/ Expire

Spec == Init /\ [][Next]_vars

\* The same program against upstreams that answer the same way all along.
SpecFixed == InitFixed /\ [][Next]_vars

----------------------------------------------------------------------------
(* _geocode_city on its own: every argument shape against every script of  *)
(* geocoder answers.                                                       *)

MaxScript == 3

GeoStates == { None, <<>>, <<"s">> }

GeoCountries == { None, <<"U", "S">> }

GeocodeCall ==
    /\ pc = "idle"
    /\ \E city \in Cities, state \in GeoStates, country \in GeoCountries,
          script \in [1..MaxScript -> GeoOutcomes] :
         \E r \in {_geocode_city(city, state, country, script, Fresh(cache, clients))} :
             last' = [op |-> "_geocode_city", city |-> city, state |-> state,
                      country |-> country, script |-> script, ret |-> r.ret,
                      calls |-> r.st.calls, writes |-> r.st.writes]
    /\ pc' = "done"
    /\ UNCHANGED <<cache, clients, cfg, up>>

NextGeocode == GeocodeCall \/ Respond

SpecGeocode == Init /\ [][NextGeocode]_vars

----------------------------------------------------------------------------
(* The optional provider adapters on their own, against a cache that        *)
(* outlives a change of the feature flags in settings.                      *)

PlaceRadii == {5, 100, 200}

OkEnv ==
    [geo |-> <<"none", "none", "none">>, details |-> HTTP_OK, llm |-> HTTP_OK,
     weather |-> HTTP_OK, amadeus |-> HTTP_OK, fsq |-> HTTP_OK]

AllConfigs ==
    [llm_enabled : BOOLEAN, amadeus_enabled : BOOLEAN, fsq_enabled : BOOLEAN,
     llm_key : BOOLEAN, amadeus_creds : BOOLEAN, fsq_key : BOOLEAN]

InitProviders ==
    /\ cache = EmptyCache
    /\ clients = [amadeus |-> FALSE, llm |-> FALSE]
    /\ cfg \in AllConfigs
    /\ up = Unfixed
    /\ pc = "idle"
    /\ last = NoRequest

PlacesCall ==
    /\ pc = "idle"
    /\ \E radius \in PlaceRadii, status \in {HTTP_OK, NO_RESPONSE} :
         \E r \in {_get_places_by_coordinates(StubLocation.latitude,
                                              StubLocation.longitude, radius, cfg,
                                              [OkEnv EXCEPT !.fsq = status],
                                              Fresh(cache, clients))} :
             /\ cache' = r.st.cache
             /\ clients' = r.st.clients
             /\ last' = [op |-> "_get_places_by_coordinates", radius |-> radius,
                         status |-> status, ret |-> r.ret, calls |-> r.st.calls,
                         writes |-> r.st.writes, cache_before |-> cache]
    /\ pc' = "done"
    /\ UNCHANGED <<cfg, up>>

ActivitiesCall ==
    /\ pc = "idle"
    /\ \E radius \in Radii, status \in {HTTP_OK, 429} :
         \E r \in {_get_activities_by_coordinates(StubLocation.latitude,
                                                  StubLocation.longitude, radius, cfg,
                                                  [OkEnv EXCEPT !.amadeus = status],
                                                  Fresh(cache, clients))} :
             /\ cache' = r.st.cache
             /\ clients' = r.st.clients
             /\ last' = [op |-> "_get_activities_by_coordinates", radius |-> radius,
                         status |-> status, ret |-> r.ret, calls |-> r.st.calls,
                         writes |-> r.st.writes, cache_before |-> cache]
    /\ pc' = "done"
    /\ UNCHANGED <<cfg, up>>

SummaryCall ==
    /\ pc = "idle"
    /\ \E city \in Cities, status \in {HTTP_OK, 503} :
         \E r \in {_get_city_summary(city, <<"s">>, <<"U", "S">>, cfg,
                                     [OkEnv EXCEPT !.llm = status],
                                     Fresh(cache, clients))} :
             /\ cache' = r.st.cache
             /\ clients' = r.st.clients
             /\ last' = [op |-> "_get_city_summary", city |-> city,
                         status |-> status, ret |-> r.ret, calls |-> r.st.calls,
                         writes |-> r.st.writes, cache_before |-> cache]
    /\ pc' = "done"
    /\ UNCHANGED <<cfg, up>>

\* A feature flag of settings is switched while the cache keeps its entries.
Reconfigure ==
    /\ pc = "idle"
    /\ \E flag \in {"llm_enabled", "amadeus_enabled", "fsq_enabled"} :
         cfg' = [cfg EXCEPT ![flag] = ~@]
    /\ UNCHANGED <<cache, clients, up, pc, last>>

NextProviders ==
    PlacesCall \/ ActivitiesCall \/ SummaryCall \/ Reconfigure \/ Respond \/ Expire

SpecProviders == InitProviders /\ [][NextProviders]_vars

----------------------------------------------------------------------------
(* Cache-key normalisation and the keys built from it, as pure functions.   *)

MaxLen == 3

Alphabet == {"a", "A", " ", "+", "%"}

RECURSIVE Strings(_)
Strings(n) ==
    IF n = 0 THEN {<<>>}
    ELSE LET shorter == Strings(n - 1)
         IN  shorter \cup {Append(w, c) : w \in shorter, c \in Alphabet}

NormalizeInputs == NonStrings \cup Strings(MaxLen)

\* Values of one component (city, state or country) of a key.
KeyParts ==
    {None, Number123, <<" ">>, <<"a">>, <<" ", "A">>, <<"a", ":">>, <<":">>}

KeyTriples == KeyParts \X KeyParts \X KeyParts

\* The keys do not depend on the configuration or on the cache.
InitKeys ==
    /\ cache = EmptyCache
    /\ clients = [amadeus |-> FALSE, llm |-> FALSE]
    /\ cfg = [llm_enabled |-> TRUE, amadeus_enabled |-> TRUE, fsq_enabled |-> TRUE,
              llm_key |-> TRUE, amadeus_creds |-> TRUE, fsq_key |-> TRUE]
    /\ up = Unfixed
    /\ pc = "idle"
    /\ last = NoRequest

NormalizeCall ==
    /\ pc = "idle"
    /\ \E value \in NormalizeInputs :
         last' = [op |-> "_normalize_cache_part", value |-> value,
                  ret |-> _normalize_cache_part(value)]
    /\ pc' = "done"
    /\ UNCHANGED <<cache, clients, cfg, up>>

CacheKeyCall ==
    /\ pc = "idle"
    /\ \E a \in KeyTriples, b \in KeyTriples :
         last' = [op |-> "cache_key", a |-> a, b |-> b,
                  base_a |-> BaseCacheKey(a[1], a[2], a[3]),
                  base_b |-> BaseCacheKey(b[1], b[2], b[3]),
                  summary_a |-> SummaryCacheKey(a[1], a[2], a[3]),
                  summary_b |-> SummaryCacheKey(b[1], b[2], b[3])]
    /\ pc' = "done"
    /\ UNCHANGED <<cache, clients, cfg, up>>

NextKeys == NormalizeCall \/ CacheKeyCall \/ Respond

SpecKeys == InitKeys /\ [][NextKeys]_vars

----------------------------------------------------------------------------
(* The region resolver against a fixed world of countries, states and       *)
(* cities.                                                                   *)

RegionNames == { <<"A", "s">>, <<"a", "s">> }

US == [cca2 |-> <<"U", "S">>, cca3 |-> "USA", capital |-> <<"Washington">>,
       population |-> 331]

\* A territory without a capital.
AQ == [cca2 |-> <<"A", "Q">>, cca3 |-> "ATA", capital |-> <<>>, population |-> 1000]

\* An uninhabited territory: population 0 and no capital field.
BV == [cca2 |-> <<"B", "V">>, cca3 |-> "BVT", population |-> 0]

CountryPayloads ==
    { JsonList(<<>>), JsonDict, JsonList(<<US>>), JsonList(<<AQ>>), JsonList(<<BV, US>>) }

CA == [iso2 |-> <<"C", "A">>, name |-> "California"]

TX == [iso2 |-> <<"T", "X">>, name |-> "Texas"]

NV == [iso2 |-> <<"N", "V">>, name |-> "Nevada"]

\* A state record without an iso2 code.
NoIso == [name |-> "Unincorporated"]

StatePayloads ==
    { JsonList(<<>>), JsonDict, JsonList(<<CA, TX>>), JsonList(<<NoIso, NV>>) }

RegionWorlds == [countries : CountryPayloads, states : StatePayloads]

InitRegion ==
    /\ cache = EmptyCache
    /\ clients = [amadeus |-> FALSE, llm |-> FALSE]
    /\ cfg \in [csc_key : BOOLEAN]
    /\ up \in RegionWorlds
    /\ pc = "idle"
    /\ last = NoRequest

\* views.get_city_from_region -> services.resolve_city_for_region
RegionRequest ==
    /\ pc = "idle"
    /\ \E region \in RegionNames, wants_capital \in BOOLEAN :
         \E r \in resolve_city_for_region(region, wants_capital, cfg, up,
                                          Fresh(cache, clients)) :
             /\ cache' = r.st.cache
             /\ last' = [op |-> "resolve_city_for_region", region |-> region,
                         wants_capital |-> wants_capital, ret |-> r.ret,
                         calls |-> r.st.calls, writes |-> r.st.writes,
                         draws |-> r.st.draws, cache_before |-> cache]
    /\ pc' = "done"
    /\ UNCHANGED <<clients, cfg, up>>

NextRegion == RegionRequest \/ Respond \/ Expire

SpecRegion == InitRegion /\ [][NextRegion]_vars

----------------------------------------------------------------------------
(* The sanitisation filter as a pure function of its input.                 *)

MaxTokens == 3

SampleTokens ==
    { Text("x"), StartTag("b", {}), EndTag("b"),
      StartTag("script", {}), EndTag("script"),
      StartTag("a", {Attr("href", "https"), Attr("onclick", "")}),
      StartTag("a", {Attr("href", "javascript"), Attr("title", "")}),
      StartTag("p", {Attr("style", "")}),
      StartTag("div", {Attr("onclick", "")}) }

TokenSeqs(n) == UNION { [1..k -> SampleTokens] : k \in 0..n }

\* Strings of markup, and the values 123 and None.
SanitizeInputs ==
    { Html(tokens) : tokens \in TokenSeqs(MaxTokens) }
        \cup { [type |-> "int", value |-> 123], [type |-> "NoneType"] }

SanitizeCall ==
    /\ pc = "idle"
    /\ \E value \in SanitizeInputs :
         last' = [op |-> "_sanitize_html", value |-> value, ret |-> _sanitize_html(value)]
    /\ pc' = "done"
    /\ UNCHANGED <<cache, clients, cfg, up>>

NextSanitize == SanitizeCall \/ Respond

SpecSanitize == InitKeys /\ [][NextSanitize]_vars

----------------------------------------------------------------------------
(* Lazy client initialisation under concurrent requests.  Each request runs  *)
(* on a thread of the same process; pc[t] is the thread's position in a     *)
(* getter.  The test of the module-level reference and the assignment to it *)
(* are separate steps, with nothing in the code holding other threads back  *)
(* in between.  last counts the constructions and names the object the      *)
(* module-level reference holds (0 is None).                                 *)

NumThreads == 3

Threads == 1..NumThreads

ClientNames == {"llm", "amadeus"}

InitClients ==
    /\ cache = EmptyCache
    /\ clients = [amadeus |-> FALSE, llm |-> FALSE]
    /\ cfg \in Configs
    /\ up = Unfixed
    /\ pc = [t \in Threads |-> "idle"]
    /\ last = [op |-> "client_init", built |-> [n \in ClientNames |-> 0],
               held |-> [n \in ClientNames |-> 0], replaced |-> FALSE]

\* _get_llm_client up to the constructor call: if _llm_client: return it;
\* if not LLM_API_KEY: return None.
LlmCheck(t) ==
    /\ pc[t] = "idle"
    /\ pc' = [pc EXCEPT ![t] = IF clients.llm \/ ~cfg.llm_key
                                THEN "returned" ELSE "llm_init"]
    /\ UNCHANGED <<cache, clients, cfg, up, last>>

\* _get_amadeus_client up to the constructor call: the flag, the reference
\* and the credentials are tested.
AmadeusCheck(t) ==
    /\ pc[t] = "idle"
    /\ pc' = [pc EXCEPT ![t] = IF ~cfg.amadeus_enabled \/ clients.amadeus
                                   \/ ~cfg.amadeus_creds
                                THEN "returned" ELSE "amadeus_init"]
    /\ UNCHANGED <<cache, clients, cfg, up, last>>

\* The constructor call and the assignment to the module-level reference.
Construct(t, name) ==
    /\ pc[t] = name \o "_init"
    /\ clients' = [clients EXCEPT ![name] = TRUE]
    /\ last' = [last EXCEPT !.built[name] = @ + 1,
                            !.held[name] = last.built[name] + 1,
                            !.replaced = @ \/ last.held[name] # 0]
    /\ pc' = [pc EXCEPT ![t] = "returned"]
    /\ UNCHANGED <<cache, cfg, up>>

\* The getter has returned and the thread takes its next request.
Return(t) ==
    /\ pc[t] = "returned"
    /\ pc' = [pc EXCEPT ![t] = "idle"]
    /\ UNCHANGED <<cache, clients, cfg, up, last>>

NextClients ==
    \E t \in Threads :
        \/ LlmCheck(t)
        \/ AmadeusCheck(t)
        \/ Construct(t, "llm")
        \/ Construct(t, "amadeus")
        \/ Return(t)

SpecClients == InitClients /\ [][NextClients]_vars

----------------------------------------------------------------------------
(* Every adapter that reads an upstream, called directly against one cache. *)

\* What the directories serve.
DirectoryWorld == [countries |-> JsonList(<<US>>), states |-> JsonList(<<CA, TX>>)]

\* The credentials are set together or not at all; the flags start enabled.
AdapterConfigs ==
    { c \in [llm_enabled : {TRUE}, amadeus_enabled : {TRUE}, fsq_enabled : {TRUE},
             llm_key : BOOLEAN, amadeus_creds : BOOLEAN, fsq_key : BOOLEAN,
             csc_key : BOOLEAN] :
        /\ c.llm_key = c.amadeus_creds /\ c.amadeus_creds = c.fsq_key
        /\ c.fsq_key = c.csc_key }

InitAdapters ==
    /\ cache = EmptyCache
    /\ clients = [amadeus |-> FALSE, llm |-> FALSE]
    /\ cfg \in AdapterConfigs
    /\ up = Unfixed
    /\ pc = "idle"
    /\ last = NoRequest

CountryDetailsCall ==
    /\ pc = "idle"
    /\ \E status \in {HTTP_OK, 404} :
         \E r \in {_get_country_details(<<"U", "S">>, [OkEnv EXCEPT !.details = status],
                                        Fresh(cache, clients))} :
             /\ cache' = r.st.cache
             /\ last' = [op |-> "_get_country_details", code |-> <<"U", "S">>,
                         status |-> status, ret |-> r.ret, calls |-> r.st.calls,
                         writes |-> r.st.writes, cache_before |-> cache]
    /\ pc' = "done"
    /\ UNCHANGED <<clients, cfg, up>>

WeatherCall ==
    /\ pc = "idle"
    /\ \E status \in {HTTP_OK, 503} :
         \E r \in {_get_weather_by_coordinates(StubLocation.latitude,
                                               StubLocation.longitude,
                                               [OkEnv EXCEPT !.weather = status],
                                               Fresh(cache, clients))} :
             /\ cache' = r.st.cache
             /\ last' = [op |-> "_get_weather_by_coordinates", status |-> status,
                         ret |-> r.ret, calls |-> r.st.calls, writes |-> r.st.writes,
                         cache_before |-> cache]
    /\ pc' = "done"
    /\ UNCHANGED <<clients, cfg, up>>

CountriesCall ==
    /\ pc = "idle"
    /\ \E region \in RegionNames :
         \E r \in _get_countries_by_region(region, DirectoryWorld, Fresh(cache, clients)) :
             /\ cache' = r.st.cache
             /\ last' = [op |-> "_get_countries_by_region", region |-> region,
                         ret |-> r.ret, calls |-> r.st.calls, writes |-> r.st.writes,
                         cache_before |-> cache]
    /\ pc' = "done"
    /\ UNCHANGED <<clients, cfg, up>>

StatesCall ==
    /\ pc = "idle"
    /\ \E r \in _get_states_by_country(<<"U", "S">>, cfg, DirectoryWorld,
                                       Fresh(cache, clients)) :
         /\ cache' = r.st.cache
         /\ last' = [op |-> "_get_states_by_country", code |-> <<"U", "S">>,
                     ret |-> r.ret, calls |-> r.st.calls, writes |-> r.st.writes,
                     cache_before |-> cache]
    /\ pc' = "done"
    /\ UNCHANGED <<clients, cfg, up>>

CitiesCall ==
    /\ pc = "idle"
    /\ \E r \in _get_cities_by_state(<<"U", "S">>, <<"C", "A">>, cfg, DirectoryWorld,
                                     Fresh(cache, clients)) :
         /\ cache' = r.st.cache
         /\ last' = [op |-> "_get_cities_by_state", code |-> <<"U", "S">>,
                     state |-> <<"C", "A">>, ret |-> r.ret, calls |-> r.st.calls,
                     writes |-> r.st.writes, cache_before |-> cache]
    /\ pc' = "done"
    /\ UNCHANGED <<clients, cfg, up>>

NextAdapters ==
    \/ PlacesCall \/ ActivitiesCall \/ SummaryCall \/ CountryDetailsCall
    \/ WeatherCall \/ CountriesCall \/ StatesCall \/ CitiesCall
    \/ Reconfigure \/ Respond \/ Expire

SpecAdapters == InitAdapters /\ [][NextAdapters]_vars

----------------------------------------------------------------------------
(* The city-detail endpoint: views.get_city_detail in front of the resolver. *)

MAX_INPUT_LENGTH == 100

\* The ten characters of DISALLOWED_CHARS; the backslash and the grave accent
\* are written by name.
DISALLOWED_CHARS == {"<", ">", "{", "}", "[", "]", "|", "backslash", "^", "grave"}

\* _validate_input over the given values, in the order of the keyword
\* arguments: a falsy value is skipped.
_validate_input(values) ==
    IF \E i \in 1..Len(values) :
           /\ Truthy(values[i])
           /\ \/ Len(values[i]) > MAX_INPUT_LENGTH
              \/ \E j \in 1..Len(values[i]) : values[i][j] \in DISALLOWED_CHARS
    THEN [error |-> "Not found"]
    ELSE NoneObj

Digits == {"0", "1", "2", "3", "4", "5", "6", "7", "8", "9"}

DigitValue(c) ==
    CASE c = "0" -> 0 [] c = "1" -> 1 [] c = "2" -> 2 [] c = "3" -> 3 [] c = "4" -> 4
      [] c = "5" -> 5 [] c = "6" -> 6 [] c = "7" -> 7 [] c = "8" -> 8 [] c = "9" -> 9

RECURSIVE DigitsValue(_)
DigitsValue(s) ==
    IF s = <<>> THEN 0
    ELSE 10 * DigitsValue(SubSeq(s, 1, Len(s) - 1)) + DigitValue(s[Len(s)])

\* int(text): surrounding whitespace and one sign are accepted, then decimal
\* digits; anything else raises ValueError.
ParseInt(text) ==
    LET stripped == Strip(text)
        signed == stripped # <<>> /\ stripped[1] \in {"-", "+"}
        body == IF signed THEN Tail(stripped) ELSE stripped
    IN  IF body = <<>> \/ \E i \in 1..Len(body) : body[i] \notin Digits
        THEN [ok |-> FALSE]
        ELSE [ok |-> TRUE,
              value |-> IF signed /\ stripped[1] = "-"
                        THEN 0 - DigitsValue(body) ELSE DigitsValue(body)]

\* int(request.query_params.get("radius", 1))
RadiusOf(radius_param) ==
    IF radius_param = None THEN [ok |-> TRUE, value |-> 1] ELSE ParseInt(radius_param)

\* str.split(",")
RECURSIVE Split(_)
Split(s) ==
    IF \A i \in 1..Len(s) : s[i] # ","
    THEN <<s>>
    ELSE LET i == CHOOSE k \in 1..Len(s) : s[k] = "," /\ \A j \in 1..(k - 1) : s[j] # ","
         IN  <<SubSeq(s, 1, i - 1)>> \o Split(SubSeq(s, i + 1, Len(s)))

\* The section names as text.
SectionText ==
    [base |-> <<"b", "a", "s", "e">>, summary |-> <<"s", "u", "m", "m", "a", "r", "y">>,
     weather |-> <<"w", "e", "a", "t", "h", "e", "r">>,
     activities |-> <<"a", "c", "t", "i", "v", "i", "t", "i", "e", "s">>,
     places |-> <<"p", "l", "a", "c", "e", "s">>]

\* Variant: a parameter that names no allowed section selects them all.
ResolveIncludesEmptyIsAll(includes_param) ==
    IF ~Truthy(includes_param) THEN None
    ELSE LET parts == Split(includes_param)
             requested == { Lower(Strip(parts[i])) :
                            i \in { k \in 1..Len(parts) : Strip(parts[k]) # <<>> } }
             found == SelectSeq(ALLOWED_SECTIONS,
                                LAMBDA section : SectionText[section] \in requested)
         IN  IF found = <<>> THEN None ELSE found

_resolve_includes(includes_param) ==
    IF ~Truthy(includes_param) THEN None
    ELSE LET parts == Split(includes_param)
             requested == { Lower(Strip(parts[i])) :
                            i \in { k \in 1..Len(parts) : Strip(parts[k]) # <<>> } }
         IN  SelectSeq(ALLOWED_SECTIONS,
                       LAMBDA section : SectionText[section] \in requested)

\* Response(body, status=...); called tells whether the resolver ran.
ViewResponse(st, status, body, called) ==
    [st |-> st, status |-> status, body |-> body, called |-> called]

\* fetch_city_detail(...) and the mapping of its result to a response.
ViewResolve(city, radius, state, country, includes, config, env, st) ==
    LET r == get_city_detail(city, radius, state, country, includes, config, env, st)
    IN  IF "error" \in DOMAIN r.ret
        THEN ViewResponse(r.st, r.ret.error_status, r.ret.error, TRUE)
        ELSE ViewResponse(r.st, 200, r.ret, TRUE)

\* views.get_city_detail
views_get_city_detail(city, query, config, env, st) ==
    IF _validate_input(<<city, query.state, query.country>>) # NoneObj
    THEN ViewResponse(st, 404, _validate_input(<<city, query.state, query.country>>), FALSE)
    ELSE IF ~RadiusOf(query.radius).ok
    THEN ViewResponse(st, 400, [error |-> "radius must be an integer"], FALSE)
    ELSE IF _resolve_includes(query.includes) = <<>>
    THEN ViewResponse(st, 400, [error |-> "No valid details requested",
                                allowed_includes |-> ALLOWED_SECTIONS], FALSE)
    ELSE ViewResolve(city, RadiusOf(query.radius).value, query.state, query.country,
                     _resolve_includes(query.includes), config, env, st)

\* A city name of 101 characters.
LongCity == [i \in 1..(MAX_INPUT_LENGTH + 1) |-> "n"]

ViewCities == Cities \cup { <<"<", "y", ">">>, LongCity }

ViewStates == { None, <<"s", "|">> }

\* radius absent, "5", "-3", " 7", "ab", "5.0" and "".
RadiusParams == { None, <<"5">>, <<"-", "3">>, <<" ", "7">>, <<"a", "b">>, <<"5", ".", "0">>, <<>> }

\* includes absent, "", "weather", "bogus", "invalid,bogus", ",", " ",
\* " Weather ,bogus" and "places,weather".
IncludesParams ==
    { None, <<>>, <<"w", "e", "a", "t", "h", "e", "r">>,
      <<"b", "o", "g", "u", "s">>,
      <<"i", "n", "v", "a", "l", "i", "d", ",", "b", "o", "g", "u", "s">>,
      <<",">>, <<" ">>,
      <<" ", "W", "e", "a", "t", "h", "e", "r", " ", ",", "b", "o", "g", "u", "s">>,
      <<"p", "l", "a", "c", "e", "s", ",", "w", "e", "a", "t", "h", "e", "r">> }

\* The geocoder finds the city at once, or not at all.
ViewEnvs == { [OkEnv EXCEPT !.geo = <<"loc", "none", "none">>], OkEnv }

ViewRequest ==
    /\ pc = "idle"
    /\ \E city \in ViewCities, state \in ViewStates, radius_param \in RadiusParams,
          includes_param \in IncludesParams, env \in ViewEnvs :
         \E r \in {views_get_city_detail(city,
                        [state |-> state, country |-> None, radius |-> radius_param,
                         includes |-> includes_param],
                        cfg, env, Fresh(cache, clients))} :
             /\ cache' = r.st.cache
             /\ clients' = r.st.clients
             /\ last' = [op |-> "views.get_city_detail", city |-> city, state |-> state,
                         radius_param |-> radius_param,
                         includes_param |-> includes_param,
                         status |-> r.status, body |-> r.body, called |-> r.called,
                         calls |-> r.st.calls, writes |-> r.st.writes,
                         cache_before |-> cache]
    /\ pc' = "done"
    /\ UNCHANGED <<cfg, up>>

NextView == ViewRequest \/ Respond \/ Expire

SpecView == Init /\ [][NextView]_vars

----------------------------------------------------------------------------
(* get_city_detail under concurrent requests.  Each request runs on its own *)
(* worker of the same process against the one cache; pc[t] is the worker's  *)
(* position in get_city_detail.  cache.get(base_cache_key), the geocoder    *)
(* and country lookups, and cache.set(base_cache_key, ...) are separate     *)
(* steps, with nothing in the code holding other workers back in between.   *)
(* last.written counts the cache.set calls per base key since the key last  *)
(* expired.                                                                 *)

NumWorkers == 2

Workers == 1..NumWorkers

\* The requests all name one place, spelt in two ways.
BaseRegions == { << <<"s">>, <<"U", "S">> >> }

BaseIncludes == { <<"base">> }

BaseConfigs == { c \in Configs : c.llm_enabled /\ c.llm_key }

BaseEnvs ==
    { [OkEnv EXCEPT !.geo = script] :
        script \in { <<"loc", "none", "none">>, <<"none", "none", "none">> } }

BaseKeys ==
    { BaseCacheKey(city, region[1], region[2]) : city \in Cities, region \in BaseRegions }

Idle == [at |-> "idle"]

\* Variant: the cached record is never used.
BaseDataAlwaysMissing(req, c) == TRUE

\* base_data = cache.get(base_cache_key); if base_data is None
BaseDataMissing(req, c) == ~CacheHas(c, BaseCacheKey(req.city, req.state, req.country))

CountOf(seq, Test(_)) == Cardinality({i \in 1..Len(seq) : Test(seq[i])})

\* What a finished request did: whether its cache.get found the record, its
\* geocoder calls and its cache.set calls on the base key.
Finished(req, hit, r) ==
    [at |-> "done",
     key |-> BaseCacheKey(req.city, req.state, req.country),
     hit |-> hit,
     geocoder_calls |-> CountOf(r.st.calls, LAMBDA call : call.api = "geocoder"),
     base_writes |-> CountOf(r.st.writes,
                             LAMBDA k : k = BaseCacheKey(req.city, req.state, req.country)),
     terminal |-> "error" \in DOMAIN r.ret]

InitBase ==
    /\ cache = EmptyCache
    /\ clients = [amadeus |-> FALSE, llm |-> FALSE]
    /\ cfg \in BaseConfigs
    /\ up = Unfixed
    /\ pc = [t \in Workers |-> Idle]
    /\ last = [op |-> "base_record", written |-> [k \in BaseKeys |-> 0]]

\* get_city_detail up to the test of base_data; with the record found, the
\* rest of the request.
BaseRead(t) ==
    /\ pc[t] = Idle
    /\ \E city \in Cities, region \in BaseRegions, includes \in BaseIncludes,
          env \in BaseEnvs :
         \E req \in {[city |-> city, radius |-> 5, state |-> region[1],
                      country |-> region[2], includes |-> includes]} :
            IF BaseDataMissing(req, cache)
            THEN /\ pc' = [pc EXCEPT ![t] = [at |-> "miss", req |-> req, env |-> env]]
                 /\ UNCHANGED <<cache, clients>>
            ELSE \E r \in {Sections(req, cache[BaseCacheKey(req.city, req.state, req.country)],
                                    cfg, env, Fresh(cache, clients))} :
                    /\ cache' = r.st.cache
                    /\ clients' = r.st.clients
                    /\ pc' = [pc EXCEPT ![t] = Finished(req, TRUE, r)]
    /\ UNCHANGED <<cfg, up, last>>

\* _geocode_city and, with a location, _get_country_details.
BaseGeocode(t) ==
    /\ pc[t].at = "miss"
    /\ \E g \in {_geocode_city(pc[t].req.city, pc[t].req.state, pc[t].req.country,
                               pc[t].env.geo, Fresh(cache, clients))} :
         IF "error" \in DOMAIN g.ret
         THEN /\ pc' = [pc EXCEPT ![t] = Finished(pc[t].req, FALSE, GeocodeAbort(g))]
              /\ UNCHANGED cache
         ELSE \E d \in {_get_country_details(pc[t].req.country, pc[t].env, g.st)} :
                 /\ cache' = d.st.cache
                 /\ pc' = [pc EXCEPT ![t] =
                             [at |-> "located", req |-> pc[t].req, env |-> pc[t].env,
                              base_data |-> BaseRecord(pc[t].req, g.ret.location, d.ret),
                              calls |-> d.st.calls]]
    /\ UNCHANGED <<clients, cfg, up, last>>

\* cache.set(base_cache_key, base_data, ...) and the rest of the request.
BaseStore(t) ==
    /\ pc[t].at = "located"
    /\ \E r \in {StoreBase(pc[t].req, cfg, pc[t].env, pc[t].base_data,
                           [Fresh(cache, clients) EXCEPT !.calls = pc[t].calls])} :
         /\ cache' = r.st.cache
         /\ clients' = r.st.clients
         /\ pc' = [pc EXCEPT ![t] = Finished(pc[t].req, FALSE, r)]
         /\ last' = [last EXCEPT !.written[BaseCacheKey(pc[t].req.city, pc[t].req.state,
                                                        pc[t].req.country)] = @ + 1]
    /\ UNCHANGED <<cfg, up>>

\* The response has been returned and the worker takes its next request.
BaseReturn(t) ==
    /\ pc[t].at = "done"
    /\ pc' = [pc EXCEPT ![t] = Idle]
    /\ UNCHANGED <<cache, clients, cfg, up, last>>

\* An entry reaches its TTL while requests are in flight.
ExpireBase ==
    /\ \E key \in DOMAIN cache :
         /\ cache' = [k \in DOMAIN cache \ {key} |-> cache[k]]
         /\ last' = IF key \in BaseKeys THEN [last EXCEPT !.written[key] = 0] ELSE last
    /\ UNCHANGED <<clients, cfg, up, pc>>

NextBase ==
    \/ \E t \in Workers : BaseRead(t) \/ BaseGeocode(t) \/ BaseStore(t) \/ BaseReturn(t)
    \/ ExpireBase

SpecBase == InitBase /\ [][NextBase]_vars

----------------------------------------------------------------------------
(* resolve_city_for_region one loop iteration at a time, against a country  *)
(* with more states than the loop may draw.  pc is "loop" between two       *)
(* iterations; last holds the request's locals and counts what it has done  *)
(* so far: state draws, city-list fetches, geocode checks, and the draws    *)
(* made after a geocodable city was found.                                  *)

\* Two more records without an iso2 code.
Guam == [name |-> "Guam"]

Samoa == [name |-> "American Samoa"]

SixStates == JsonList(<<CA, TX, NoIso, Guam, Samoa, NV>>)

LoopWorlds ==
    [countries : { JsonList(<<US>>), JsonList(<<BV, US>>) },
     states : { JsonList(<<>>), JsonList(<<CA, TX>>), SixStates }]

\* Variant: every state of the country may be drawn.
StateDrawLimitAll(states) == Len(states)

\* Variant: one draw more than the limit.
StateDrawLimitPlusOne(states) == Min(Len(states), STATE_DRAWS + 1)

\* range(min(len(states), 5))
StateDrawLimit(states) == Min(Len(states), STATE_DRAWS)

\* Variant: the loop runs on after a geocodable city.
RemainingNoBreak(n, f) == n - 1

\* break after a geocodable city, else the next iteration
Remaining(n, f) == IF f.random_city # Null THEN 0 ELSE n - 1

CallsTo(st, api) == Cardinality({i \in 1..Len(st.calls) : st.calls[i].api = api})

\* The resolver up to the loop: a result, or the country and its states.
BeforeLoop(region, wants_capital, config, world, st) ==
    UNION { IF "error" \in DOMAIN c.ret THEN { [st |-> c.st, ret |-> c.ret] }
            ELSE UNION {
                   IF p.ret = NoneObj
                   THEN { [st |-> p.st, ret |-> NoCountryData(region)] }
                   ELSE IF wants_capital
                   THEN { [st |-> p.st, ret |-> CapitalResult(region, p.ret, p.st).ret] }
                   ELSE { IF ~NonEmptyList(s.ret)
                          THEN [st |-> s.st,
                                ret |-> NoStatesFound(GetCode(p.ret, "cca2"))]
                          ELSE [st |-> s.st, country |-> p.ret, states |-> s.ret.items]
                          : s \in _get_states_by_country(GetCode(p.ret, "cca2"), config,
                                                         world, p.st) }
                   : p \in _pick_country(c.ret.data, c.st) }
            : c \in _get_countries_by_region(region, world, st) }

InitLoop ==
    /\ cache = EmptyCache
    /\ clients = [amadeus |-> FALSE, llm |-> FALSE]
    /\ cfg \in [csc_key : BOOLEAN]
    /\ up \in LoopWorlds
    /\ pc = "idle"
    /\ last = NoRequest

Counted(b) ==
    [countries_fetches |-> CallsTo(b.st, "restcountries_region"),
     states_fetches |-> CallsTo(b.st, "csc_states"),
     draws |-> 0, fetches |-> 0, checks |-> 0, late |-> 0]

\* resolve_city_for_region up to the first iteration of the loop
RegionBegin ==
    /\ pc = "idle"
    /\ \E wants_capital \in BOOLEAN :
         \E b \in BeforeLoop(<<"A", "s">>, wants_capital, cfg, up, Fresh(cache, clients)) :
            /\ cache' = b.st.cache
            /\ IF "ret" \in DOMAIN b
               THEN /\ pc' = "done"
                    /\ last' = [op |-> "region_steps", wants_capital |-> wants_capital,
                                n_states |-> 0, found |-> FALSE, count |-> Counted(b),
                                ret |-> b.ret]
               ELSE /\ pc' = "loop"
                    /\ last' = [op |-> "region_steps", wants_capital |-> wants_capital,
                                n_states |-> Len(b.states), found |-> FALSE,
                                count |-> Counted(b),
                                country |-> b.country, states |-> b.states,
                                n |-> StateDrawLimit(b.states),
                                f |-> [random_city |-> Null, state_iso2 |-> None,
                                       state_name |-> Null]]
    /\ UNCHANGED <<clients, cfg, up>>

\* One iteration of the loop: a state draw, its city list, a city draw and
\* the geocode check.
LoopIteration ==
    /\ pc = "loop"
    /\ last.n > 0
    /\ \E f \in StateLoop(1, last.states, last.country, cfg, up, Fresh(cache, clients)) :
         /\ cache' = f.st.cache
         /\ last' = [last EXCEPT
              !.n = Remaining(last.n, f),
              !.found = @ \/ f.random_city # Null,
              !.f = IF f.random_city # Null
                    THEN [random_city |-> f.random_city, state_iso2 |-> f.state_iso2,
                          state_name |-> f.state_name]
                    ELSE @,
              !.count.draws = @ + 1,
              !.count.fetches = @ + CallsTo(f.st, "csc_cities"),
              !.count.checks = @ + CallsTo(f.st, "geocoder_check"),
              !.count.late = @ + (IF last.found THEN 1 ELSE 0)]
    /\ UNCHANGED <<clients, cfg, up, pc>>

\* The code after the loop
LoopEnd ==
    /\ pc = "loop"
    /\ last.n = 0
    /\ last' = [op |-> "region_steps", wants_capital |-> last.wants_capital,
                n_states |-> last.n_states, found |-> last.found, count |-> last.count,
                ret |-> AfterLoop(<<"A", "s">>, last.country,
                                  [st |-> Fresh(cache, clients),
                                   random_city |-> last.f.random_city,
                                   state_iso2 |-> last.f.state_iso2,
                                   state_name |-> last.f.state_name]).ret]
    /\ pc' = "done"
    /\ UNCHANGED <<cache, clients, cfg, up>>

NextLoop == RegionBegin \/ LoopIteration \/ LoopEnd \/ Respond \/ Expire

SpecLoop == InitLoop /\ [][NextLoop]_vars

----------------------------------------------------------------------------
(* _pick_country as a function of the list it is given and of its draws.    *)

MaxCountries == 3

PickInputs ==
    { JsonDict } \cup
    { JsonList(items) : items \in UNION { [1..k -> {US, AQ, BV}] : k \in 0..MaxCountries } }

PickCall ==
    /\ pc = "idle"
    /\ \E countries \in PickInputs :
         \E p \in _pick_country(countries, Fresh(cache, clients)) :
            last' = [op |-> "_pick_country", countries |-> countries, ret |-> p.ret,
                     draws |-> p.st.draws]
    /\ pc' = "done"
    /\ UNCHANGED <<cache, clients, cfg, up>>

NextPick == PickCall \/ Respond

SpecPick == InitKeys /\ [][NextPick]_vars

----------------------------------------------------------------------------
(* _sanitize_activities as a function of the payload it is given.           *)

MaxActivities == 3

TourA ==
    [name |-> "Tour A", description |-> RawDescription,
     shortDescription |-> RawShortDescription, price |-> [type |-> "int", value |-> 123]]

\* No description fields.
TourB == [name |-> "Tour B"]

\* A description that is not a string.
TourC == [name |-> "Tour C", description |-> [type |-> "NoneType"]]

\* null, records, and a string where a record is expected
SampleItems == { NoneObj, TourA, TourB, TourC, Html(<< Text("x") >>) }

ActivityInputs ==
    { JsonList(items) : items \in UNION { [1..k -> SampleItems] : k \in 0..MaxActivities } }
    \cup SampleItems \cup { [type |-> "int", value |-> 123] }

SanitizeActivitiesCall ==
    /\ pc = "idle"
    /\ \E data \in ActivityInputs :
         last' = [op |-> "_sanitize_activities", data |-> data,
                  ret |-> _sanitize_activities(data),
                  data_after |-> ArgumentAfter(data)]
    /\ pc' = "done"
    /\ UNCHANGED <<cache, clients, cfg, up>>

NextActivities == SanitizeActivitiesCall \/ Respond

SpecActivities == InitKeys /\ [][NextActivities]_vars

----------------------------------------------------------------------------
(* Weather alignment: _parse_iso, _nearest_index and _pick_indexed, and the *)
(* part of _get_weather_by_coordinates that uses them on a fetched payload. *)
(* A timestamp string is [type |-> "str", hour, zone]: the hour of its time *)
(* (an hour above 23 is not an ISO time) and its zone suffix, "" for none.  *)
(* A parsed datetime is naive or aware, with its instant in minutes.        *)

Iso(hour, zone) == [type |-> "str", hour |-> hour, zone |-> zone]

\* ts.replace("Z", "+00:00")
ZoneNorm(zone) == IF zone = "Z" THEN "+00:00" ELSE zone

\* the UTC offset that datetime.fromisoformat reads from the suffix
OffsetMinutes(zone) == IF zone = "+01:00" THEN 60 ELSE 0

\* None for a non-string and for a string that fromisoformat rejects
_parse_iso(ts) ==
    IF ts.type # "str" THEN NoneObj
    ELSE IF ts.hour \notin 0..23 THEN NoneObj
    ELSE [aware |-> ZoneNorm(ts.zone) # "",
          instant |-> 60 * ts.hour - OffsetMinutes(ZoneNorm(ts.zone))]

Abs(x) == IF x < 0 THEN -x ELSE x

\* Variant: a later entry at the same distance replaces the earlier one.
RECURSIVE NearestLoopLastWins(_, _, _, _)
NearestLoopLastWins(cur_dt, series, i, best) ==
    IF i > Len(series) THEN (IF best = NoneObj THEN NoneObj ELSE [idx |-> best.idx])
    ELSE IF _parse_iso(series[i]) = NoneObj
    THEN NearestLoopLastWins(cur_dt, series, i + 1, best)
    ELSE IF _parse_iso(series[i]).aware # cur_dt.aware THEN [raised |-> "TypeError"]
    ELSE IF best = NoneObj
            \/ Abs(_parse_iso(series[i]).instant - cur_dt.instant) <= best.delta
    THEN NearestLoopLastWins(cur_dt, series, i + 1,
             [idx |-> i - 1,
              delta |-> Abs(_parse_iso(series[i]).instant - cur_dt.instant)])
    ELSE NearestLoopLastWins(cur_dt, series, i + 1, best)

\* for i, ts in enumerate(series): best is None or [idx, delta].  dt - cur_dt
\* raises TypeError when one is naive and the other aware.
RECURSIVE NearestLoop(_, _, _, _)
NearestLoop(cur_dt, series, i, best) ==
    IF i > Len(series) THEN (IF best = NoneObj THEN NoneObj ELSE [idx |-> best.idx])
    ELSE IF _parse_iso(series[i]) = NoneObj
    THEN NearestLoop(cur_dt, series, i + 1, best)
    ELSE IF _parse_iso(series[i]).aware # cur_dt.aware THEN [raised |-> "TypeError"]
    ELSE IF best = NoneObj
            \/ Abs(_parse_iso(series[i]).instant - cur_dt.instant) < best.delta
    THEN NearestLoop(cur_dt, series, i + 1,
             [idx |-> i - 1,
              delta |-> Abs(_parse_iso(series[i]).instant - cur_dt.instant)])
    ELSE NearestLoop(cur_dt, series, i + 1, best)

\* Returns NoneObj, [idx |-> i] with i counted from 0, or the exception.
_nearest_index(current_ts, series) ==
    IF _parse_iso(current_ts) = NoneObj \/ ~IsList(series) THEN NoneObj
    ELSE IF series.items = <<>> THEN NoneObj
    ELSE NearestLoop(_parse_iso(current_ts), series.items, 1, NoneObj)

_pick_indexed(series, idx) ==
    IF idx # NoneObj /\ IsList(series) /\ Len(series.items) > idx.idx
    THEN series.items[idx.idx + 1]
    ELSE Null

\* dict.get(key, default)
GetOr(dict, key, default) == IF key \in DOMAIN dict THEN dict[key] ELSE default

\* _get_weather_by_coordinates from data = response.json() on: the result, or
\* the exception that leaves the function (only RequestException is caught).
WeatherFromData(data) ==
    LET idx == _nearest_index(data.current_weather.time, data.hourly.time)
    IN  IF "raised" \in DOMAIN idx THEN idx
        ELSE [data |->
               [current |->
                  [time |-> data.current_weather.time,
                   humidity |->
                     _pick_indexed(GetOr(data.hourly, "relativehumidity_2m",
                                         [kind |-> "list", items |-> <<>>]), idx),
                   precipitation |->
                     _pick_indexed(GetOr(data.hourly, "precipitation",
                                         [kind |-> "list", items |-> <<>>]), idx),
                   cloudcover |->
                     _pick_indexed(GetOr(data.hourly, "cloudcover",
                                         [kind |-> "list", items |-> <<>>]), idx)],
                next_day |-> Null,
                raw |-> data]]

\* get_city_detail around the weather section: no handler, an exception
\* leaves get_city_detail as well.
WeatherInDetail(weather) ==
    IF "raised" \in DOMAIN weather THEN weather
    ELSE [data |-> [weather |-> weather.data]]

MaxSeries == 3

Timestamps ==
    { Iso(10, ""), Iso(11, ""), Iso(12, ""), Iso(11, "Z"), Iso(12, "+01:00"),
      Iso(25, ""), [type |-> "NoneType"] }

SeriesInputs ==
    { JsonList(items) : items \in UNION { [1..k -> Timestamps] : k \in 0..MaxSeries } }
    \cup { NoneObj, JsonDict }

\* What open-meteo served: the two time fields vary, the hourly metrics are
\* three humidity values, three precipitation values and three cloud covers.
FetchedWeather(current_ts, series) ==
    [current_weather |-> [time |-> current_ts],
     hourly |-> [time |-> series,
                 relativehumidity_2m |-> JsonList(<<"h0", "h1", "h2">>),
                 precipitation |-> JsonList(<<"p0", "p1", "p2">>),
                 cloudcover |-> JsonList(<<"c0", "c1", "c2">>)]]

WeatherAlignCall ==
    /\ pc = "idle"
    /\ \E current_ts \in Timestamps, series \in SeriesInputs :
         \E w \in {WeatherFromData(FetchedWeather(current_ts, series))} :
            last' = [op |-> "weather_alignment", current_ts |-> current_ts,
                     series |-> series,
                     idx |-> _nearest_index(current_ts, series),
                     ret |-> w, detail |-> WeatherInDetail(w)]
    /\ pc' = "done"
    /\ UNCHANGED <<cache, clients, cfg, up>>

NextWeather == WeatherAlignCall \/ Respond

SpecWeather == InitKeys /\ [][NextWeather]_vars

----------------------------------------------------------------------------
(* The section providers of get_city_detail taken in another order than the *)
(* code's.  The code calls summary, weather, activities and places one     *)
(* after the other; SectionsInOrder calls the same adapters on the same     *)
(* base record in a given order and builds the response after the last.    *)

ProviderOrder == <<"summary", "weather", "activities", "places">>

Orders ==
    { order \in [1..Len(ProviderOrder) -> Range(ProviderOrder)] :
        \A i, j \in 1..Len(ProviderOrder) : i # j => order[i] # order[j] }

ApplySection(section, req, b, config, env, acc) ==
    CASE section = "summary" -> SummarySection(req, b, config, env, acc)
      [] section = "weather" -> WeatherSection(req, b, config, env, acc)
      [] section = "activities" -> ActivitiesSection(req, b, config, env, acc)
      [] section = "places" -> PlacesSection(req, b, config, env, acc)

RECURSIVE RunSections(_, _, _, _, _, _, _)
RunSections(order, k, req, b, config, env, acc) ==
    IF k > Len(order) THEN acc
    ELSE RunSections(order, k + 1, req, b, config, env,
                     ApplySection(order[k], req, b, config, env, acc))

SectionsInOrder(order, req, b, config, env, st) ==
    IF DOMAIN b.coordinates # {"latitude", "longitude"}
    THEN With(st, MissingCoordinates(req.city))
    ELSE Aggregate(RunSections(order, 1, req, b, config, env,
                               [st |-> st,
                                data |-> BaseMerge(IncludeSet(req.includes), b),
                                errors |-> <<>>]))

\* The place all requests of this specification ask for.
OrderPlace == [city |-> <<"N", "y">>, state |-> <<"s">>, country |-> <<"U", "S">>]

OrderIncludes == { None, <<"summary", "activities">>, <<"weather", "places", "wikipedia">> }

OrderEnvs ==
    [geo : {<<"loc", "none", "none">>}, details : {HTTP_OK},
     llm : {HTTP_OK, 503}, weather : {HTTP_OK, 503},
     amadeus : {HTTP_OK, 429}, fsq : {HTTP_OK, NO_RESPONSE}]

\* get_city_detail(..., includes=["base"]): the base record gets resolved.
BaseRequest ==
    /\ pc = "idle"
    /\ \E env \in {e \in OrderEnvs : e.llm = HTTP_OK /\ e.weather = HTTP_OK
                                     /\ e.amadeus = HTTP_OK /\ e.fsq = HTTP_OK} :
         \E r \in {get_city_detail(OrderPlace.city, 5, OrderPlace.state,
                                   OrderPlace.country, <<"base">>, cfg, env,
                                   Fresh(cache, clients))} :
            /\ cache' = r.st.cache
            /\ clients' = r.st.clients
            /\ last' = [op |-> "get_city_detail", city |-> OrderPlace.city, radius |-> 5,
                        state |-> OrderPlace.state, country |-> OrderPlace.country,
                        includes |-> <<"base">>, env |-> env, ret |-> r.ret,
                        calls |-> r.st.calls, writes |-> r.st.writes,
                        results |-> r.st.results, cache_before |-> cache]
    /\ pc' = "done"
    /\ UNCHANGED <<cfg, up>>

\* A request that finds the base record, as the code runs it and with its
\* sections taken in the given order.
OrderedRequest ==
    /\ pc = "idle"
    /\ CacheHas(cache, BaseCacheKey(OrderPlace.city, OrderPlace.state, OrderPlace.country))
    /\ \E order \in Orders, includes \in OrderIncludes, env \in OrderEnvs :
         \E req \in {[city |-> OrderPlace.city, radius |-> 5, state |-> OrderPlace.state,
                      country |-> OrderPlace.country, includes |-> includes]} :
           \E r \in {get_city_detail(req.city, req.radius, req.state, req.country,
                                     req.includes, cfg, env, Fresh(cache, clients))},
              o \in {SectionsInOrder(order, req,
                                     cache[BaseCacheKey(req.city, req.state, req.country)],
                                     cfg, env, Fresh(cache, clients))} :
                /\ cache' = r.st.cache
                /\ clients' = r.st.clients
                /\ last' = [op |-> "sections_in_order", includes |-> includes,
                            order |-> order, ret |-> r.ret, results |-> r.st.results,
                            ret_in_order |-> o.ret, cache_in_order |-> o.st.cache,
                            results_in_order |-> o.st.results,
                            calls_in_order |-> o.st.calls]
    /\ pc' = "done"
    /\ UNCHANGED <<cfg, up>>

NextOrder == BaseRequest \/ OrderedRequest \/ Respond \/ Expire

SpecOrder == Init /\ [][NextOrder]_vars

----------------------------------------------------------------------------
(* The outbound calls of one request, counted per upstream: get_city_detail *)
(* as a whole and resolve_city_for_region one loop iteration at a time,     *)
(* against one cache.                                                       *)

CallConfigs ==
    [llm_enabled : {TRUE}, amadeus_enabled : {TRUE}, fsq_enabled : {TRUE},
     llm_key : {TRUE}, amadeus_creds : {TRUE}, fsq_key : {TRUE}, csc_key : {TRUE}]

\* Two more records without an iso2 code.
Midway == [name |-> "Midway"]

Wake == [name |-> "Wake Island"]

\* One country, six states, one of them with a code.
CallWorlds ==
    { [countries |-> JsonList(<<US>>),
       states |-> JsonList(<<CA, NoIso, Guam, Samoa, Midway, Wake>>)] }

Upstreams ==
    {"geocoder", "restcountries_alpha", "open_meteo", "amadeus", "foursquare", "llm"}

InitCalls ==
    /\ cache = EmptyCache
    /\ clients = [amadeus |-> FALSE, llm |-> FALSE]
    /\ cfg \in CallConfigs
    /\ up \in CallWorlds
    /\ pc = "idle"
    /\ last = NoRequest

\* The geocoder queries of a request, each with its country_codes argument.
GeocoderQueries(st) ==
    { <<st.calls[i].query, st.calls[i].country_codes>> :
        i \in {j \in 1..Len(st.calls) : st.calls[j].api = "geocoder"} }

\* get_city_detail, the whole request; last keeps the number of calls to
\* each upstream.
CountedDetailRequest ==
    /\ pc = "idle"
    /\ \E includes \in {None, <<"summary">>} :
         \E env \in Envs(OrderPlace.city, OrderPlace.state, OrderPlace.country, includes,
                         cache) :
           \E r \in {get_city_detail(OrderPlace.city, 5, OrderPlace.state,
                                     OrderPlace.country, includes, cfg, env,
                                     Fresh(cache, clients))} :
              /\ cache' = r.st.cache
              /\ clients' = r.st.clients
              /\ last' = [op |-> "detail_calls",
                          count |-> [api \in Upstreams |-> CallsTo(r.st, api)],
                          queries |-> Cardinality(GeocoderQueries(r.st)),
                          others |-> Cardinality({i \in 1..Len(r.st.calls) :
                                                    r.st.calls[i].api \notin Upstreams}),
                          terminal |-> "error" \in DOMAIN r.ret]
    /\ pc' = "done"
    /\ UNCHANGED <<cfg, up>>

NextCalls ==
    CountedDetailRequest \/ RegionBegin \/ LoopIteration \/ LoopEnd \/ Respond \/ Expire

SpecCalls == InitCalls /\ [][NextCalls]_vars

----------------------------------------------------------------------------
(* Properties of get_city_detail *)

Done == pc = "done" /\ last.op = "get_city_detail"

Terminal == "error" \in DOMAIN last.ret

Success == "data" \in DOMAIN last.ret

BaseFields == {"city", "coordinates", "state", "country", "country_details"}

ProviderSections == {"summary", "weather", "activities", "places"}

ErrorSections == IF "errors" \in DOMAIN last.ret THEN DOMAIN last.ret.errors ELSE {}

BaseMiss == ~CacheHas(last.cache_before, BaseCacheKey(last.city, last.state, last.country))

\* The geocoding step ran and ended without a location.
GeocodingFailed ==
    /\ Len(last.calls) > 0
    /\ \A i \in 1..Len(last.calls) :
         last.calls[i].api = "geocoder" /\ last.calls[i].outcome # "loc"

Requested ==
    IF last.includes = None THEN {"base"} \cup ProviderSections
    ELSE Range(last.includes) \cap ({"base"} \cup ProviderSections)

\* The section's adapter returned an error result.
ProviderFailed(section) == "error" \in DOMAIN last.results[section]

\* C2: in a successful result every requested section other than base is in
\* exactly one of data and errors, in data iff its provider succeeded, and the
\* errors key is present iff some requested section failed.
C2_DataErrorsPartition ==
    (Done /\ Success) =>
        /\ \A section \in Requested \ {"base"} :
             /\ section \in DOMAIN last.results
             /\ (section \in DOMAIN last.ret.data) # (section \in ErrorSections)
             /\ (section \in DOMAIN last.ret.data) <=> ~ProviderFailed(section)
             /\ (section \in ErrorSections) <=> ProviderFailed(section)
        /\ ("errors" \in DOMAIN last.ret) <=>
               (\E section \in Requested \ {"base"} : ProviderFailed(section))

C2_Witness ==
    /\ Done
    /\ Success
    /\ "weather" \in ErrorSections
    /\ {"summary", "activities", "places"} \subseteq DOMAIN last.ret.data

\* C3: when a requested section's provider fails with status S, errors[section]
\* carries error_status = S and data has no key for the section.
C3_SectionErrorCarriesStatus ==
    (Done /\ Success) =>
        \A section \in DOMAIN last.results :
            ProviderFailed(section) =>
                /\ section \in ErrorSections
                /\ "error_status" \in DOMAIN last.ret.errors[section]
                /\ last.ret.errors[section].error_status
                       = last.results[section].error_status
                /\ section \notin DOMAIN last.ret.data

\* What _geocode_city returns for the request's arguments and geocoder answers.
GeocodeResultOfLast ==
    _geocode_city(last.city, last.state, last.country, last.env.geo,
                  Fresh(EmptyCache, clients)).ret

\* C4: when base resolution fails (cache miss and _geocode_city returns an
\* error) the result is that error and status unchanged, with no data key, no
\* cache write, no country-details fetch and no section provider call.
C4_GeocodeFailureIsTerminal ==
    (Done /\ BaseMiss /\ "error" \in DOMAIN GeocodeResultOfLast) =>
        /\ last.ret = GeocodeResultOfLast
        /\ "data" \notin DOMAIN last.ret
        /\ last.writes = <<>>
        /\ cache = last.cache_before
        /\ \A i \in 1..Len(last.calls) : last.calls[i].api = "geocoder"

C4_Witness ==
    /\ Done
    /\ BaseMiss
    /\ Terminal
    /\ last.ret.error_status = 502
    /\ last.includes = None

----------------------------------------------------------------------------
(* Properties of _geocode_city *)

GeocodeDone == pc = "done" /\ last.op = "_geocode_city"

\* Number of attempts: the 'city, country' attempt exists only when both state
\* and country are given.
AttemptCount == IF Truthy(last.state) /\ Truthy(last.country) THEN 3 ELSE 2

Quiet(j) == last.script[j] \in {"none", "timeout"}

FirstDecisive(outcome) ==
    \E i \in 1..AttemptCount :
        last.script[i] = outcome /\ \A j \in 1..(i - 1) : Quiet(j)

\* C5: _geocode_city succeeds with the location if an attempt returned one
\* before any non-timeout error, gives 'Geocoding failed' 502 if an attempt
\* raised a non-timeout error first, and 'City not found' 404 if every attempt
\* returned nothing or timed out; a timeout alone is never an error.
C5_GeocodeOutcome ==
    GeocodeDone =>
        /\ FirstDecisive("loc") => last.ret = [location |-> StubLocation]
        /\ FirstDecisive("error") =>
               /\ "error" \in DOMAIN last.ret
               /\ last.ret.error.error = "Geocoding failed"
               /\ last.ret.error_status = 502
        /\ (\A i \in 1..AttemptCount : Quiet(i)) =>
               /\ "error" \in DOMAIN last.ret
               /\ last.ret.error.error = "City not found"
               /\ last.ret.error_status = 404

C5_Witness ==
    /\ GeocodeDone
    /\ AttemptCount = 3
    /\ last.script[1] = "timeout" /\ last.script[2] = "timeout" /\ last.script[3] = "loc"
    /\ "location" \in DOMAIN last.ret
    /\ Len(last.calls) = 3

----------------------------------------------------------------------------
(* Properties of get_city_detail, continued *)

\* C6: for fixed upstream responses and flags, get_city_detail returns the same
\* result against the cache it finds as against an empty cache.
C6_CacheIsOnlyAnOptimisation ==
    Done =>
        last.ret = get_city_detail(last.city, last.radius, last.state, last.country,
                                   last.includes, cfg, last.env,
                                   Fresh(EmptyCache, clients)).ret

\* C7: in every successful response that includes base, data.city, data.state
\* and data.country are the arguments of that request and data.coordinates are
\* the coordinates the geocoder resolved.
C7_BaseEchoesRequest ==
    (Done /\ Success /\ "base" \in Requested) =>
        /\ last.ret.data.city = last.city
        /\ last.ret.data.state = last.state
        /\ last.ret.data.country = last.country
        /\ last.ret.data.coordinates = [latitude |-> 40, longitude |-> -74]

\* C8: the base fields are at the top level of data iff base is in the
\* effective section set; base resolution (cache lookup, geocoding on a miss)
\* happens for every request; a section other than base is in data only if it
\* was requested.
C8_BaseMergedIffRequested ==
    Done =>
        /\ BaseMiss => (Len(last.calls) > 0 /\ last.calls[1].api = "geocoder")
        /\ ~BaseMiss => \A i \in 1..Len(last.calls) : last.calls[i].api # "geocoder"
        /\ Success =>
             /\ CacheHas(cache, BaseCacheKey(last.city, last.state, last.country))
             /\ "base" \in Requested => BaseFields \subseteq DOMAIN last.ret.data
             /\ "base" \notin Requested => BaseFields \cap DOMAIN last.ret.data = {}
             /\ (DOMAIN last.ret.data) \ BaseFields \subseteq Requested

C8_Witness ==
    /\ Done
    /\ Success
    /\ BaseMiss
    /\ last.includes = <<"weather">>
    /\ DOMAIN last.ret.data = {"weather"}

\* The section on whose behalf an upstream is called.
SectionOfApi(api) ==
    CASE api = "llm" -> "summary"
      [] api = "open_meteo" -> "weather"
      [] api = "amadeus" -> "activities"
      [] api = "foursquare" -> "places"
      [] OTHER -> "base"

\* C9: the effective section set is the full allowed set when includes is None
\* and otherwise the requested names that are allowed; no provider is invoked
\* for a name outside it, and an unrecognised name is dropped without a data
\* entry, an errors entry or a failure.
C9_EffectiveSectionSet ==
    Done =>
        /\ \A i \in 1..Len(last.calls) :
             SectionOfApi(last.calls[i].api) \in Requested \cup {"base"}
        /\ ~GeocodingFailed =>
             /\ Success
             /\ DOMAIN last.results = Requested \ {"base"}
             /\ (DOMAIN last.ret.data) \ BaseFields \subseteq Requested
             /\ ErrorSections \subseteq Requested
             /\ "wikipedia" \notin (DOMAIN last.ret.data) \cup ErrorSections

C9_Witness ==
    /\ Done
    /\ last.includes = <<"wikipedia">>
    /\ Success
    /\ DOMAIN last.ret.data = {}
    /\ ErrorSections = {}

\* C10: with radius r the points-of-interest provider is invoked with radius r
\* (outbound radius min(1000 * r, 100000) metres) and the activities provider
\* with radius r.
C10_ProvidersGetRequestRadius ==
    Done =>
        \A i \in 1..Len(last.calls) :
            /\ last.calls[i].api = "foursquare" =>
                   last.calls[i].radius = Min(1000 * last.radius, 100000)
            /\ last.calls[i].api = "amadeus" => last.calls[i].radius = last.radius

----------------------------------------------------------------------------
(* Properties of the optional provider adapters *)

PlacesDone == pc = "done" /\ last.op = "_get_places_by_coordinates"

ActivitiesDone == pc = "done" /\ last.op = "_get_activities_by_coordinates"

SummaryDone == pc = "done" /\ last.op = "_get_city_summary"

PlacesKeyOfLast == <<"places", 40, -74, last.radius>>

\* C11: on a cache miss with the provider enabled and configured, the radius
\* of the outbound places request is min(1000 * r, 100000) metres for the
\* radius r in kilometres, so never above 100000 (r = 200 gives 100000).
C11_PlacesRadiusCapped ==
    (PlacesDone /\ ~CacheHas(last.cache_before, PlacesKeyOfLast)
                /\ cfg.fsq_enabled /\ cfg.fsq_key) =>
        /\ Len(last.calls) = 1
        /\ last.calls[1].api = "foursquare"
        /\ last.calls[1].radius =
               (IF 1000 * last.radius <= 100000 THEN 1000 * last.radius ELSE 100000)
        /\ last.calls[1].radius <= 100000

C11_Witness ==
    /\ PlacesDone
    /\ last.radius = 200
    /\ Len(last.calls) = 1
    /\ last.calls[1].radius = 100000

\* C12: whenever the points-of-interest flag is disabled,
\* _get_places_by_coordinates returns a success with an empty list and makes
\* no outbound call, whatever the API key and whatever the cache holds.
C12_DisabledPlacesIsEmpty ==
    (PlacesDone /\ ~cfg.fsq_enabled) =>
        /\ last.ret = [data |-> <<>>]
        /\ last.calls = <<>>

\* C13: an optional provider whose feature flag is disabled returns a success
\* and never an error, whatever credentials are present, and makes no
\* upstream call.
C13_DisabledProviderNeverErrors ==
    /\ (PlacesDone /\ ~cfg.fsq_enabled) =>
           ("data" \in DOMAIN last.ret /\ "error" \notin DOMAIN last.ret
            /\ last.calls = <<>>)
    /\ (ActivitiesDone /\ ~cfg.amadeus_enabled) =>
           ("data" \in DOMAIN last.ret /\ "error" \notin DOMAIN last.ret
            /\ last.calls = <<>>)
    /\ (SummaryDone /\ ~cfg.llm_enabled) =>
           (last.ret = [data |-> Null] /\ last.calls = <<>>)

C13_Witness ==
    /\ ActivitiesDone
    /\ ~cfg.amadeus_enabled
    /\ ~cfg.amadeus_creds
    /\ last.ret = [data |-> JsonList(<<>>)]

\* C14: with the points-of-interest flag enabled, no API key and no cached
\* entry, _get_places_by_coordinates returns the missing-key error with status
\* 500, calls nothing and caches nothing; get_city_detail reports it under
\* errors.places and still succeeds.
C14_MissingPlacesKey ==
    (Done /\ ~GeocodingFailed /\ "places" \in Requested
          /\ cfg.fsq_enabled /\ ~cfg.fsq_key
          /\ ~CacheHas(last.cache_before, <<"places", 40, -74, 10>>)) =>
        /\ last.results["places"] =
               [error |-> [error |-> "Missing Foursquare API key"], error_status |-> 500]
        /\ \A i \in 1..Len(last.calls) : last.calls[i].api # "foursquare"
        /\ ~CacheHas(cache, <<"places", 40, -74, 10>>)
        /\ Success
        /\ ~Terminal
        /\ "places" \in ErrorSections
        /\ last.ret.errors["places"] = [error |-> "Missing Foursquare API key"]
        /\ "places" \notin DOMAIN last.ret.data

C14_Witness ==
    /\ Done
    /\ Success
    /\ last.includes = <<"places">>
    /\ cfg.fsq_enabled /\ ~cfg.fsq_key
    /\ ErrorSections = {"places"}

----------------------------------------------------------------------------
(* Properties of the cache keys *)

NormalizeDone == pc = "done" /\ last.op = "_normalize_cache_part"

\* C15: cache-key normalisation is idempotent: normalising an already
\* normalised string gives the same string, for every string.
C15_NormalizeIdempotent ==
    NormalizeDone => _normalize_cache_part(last.ret) = last.ret

CacheKeyDone == pc = "done" /\ last.op = "cache_key"

\* A component after trimming and lower-casing; a null, non-string or blank
\* value is absent.
Canon(value) == IF value \in {None, Number123} THEN <<>> ELSE Lower(Strip(value))

SamePlace(a, b) == \A i \in 1..3 : Canon(a[i]) = Canon(b[i])

\* C16: two requests have the same base cache key, and the same summary cache
\* key, iff their city, state and country are component-wise equal after
\* trimming and lower-casing, null, non-string and blank values being absent.
C16_SameKeyIffSamePlace ==
    CacheKeyDone =>
        /\ (last.base_a = last.base_b) <=> SamePlace(last.a, last.b)
        /\ (last.summary_a = last.summary_b) <=> SamePlace(last.a, last.b)

C16_Witness ==
    /\ CacheKeyDone
    /\ last.a = << <<" ", "A">>, None, <<" ">> >>
    /\ last.b = << <<"a">>, Number123, None >>
    /\ last.base_a = last.base_b
    /\ last.summary_a = last.summary_b

----------------------------------------------------------------------------
(* Properties of resolve_city_for_region *)

RegionDone == pc = "done" /\ last.op = "resolve_city_for_region"

\* The country list was asked from the upstream and the fetch failed.
CountriesFetchFailed ==
    \E i \in 1..Len(last.calls) :
        last.calls[i].api = "restcountries_region" /\ last.calls[i].outcome # HTTP_OK

OnlyCountriesFetched ==
    \A i \in 1..Len(last.calls) : last.calls[i].api = "restcountries_region"

\* C17: if fetching the region's country list fails (transport error or a
\* non-2xx status such as 404), resolve_city_for_region returns a terminal
\* error with status 502, writes nothing to the cache and makes no further
\* upstream call.
C17_CountriesFailureIs502 ==
    (RegionDone /\ CountriesFetchFailed) =>
        /\ "error" \in DOMAIN last.ret
        /\ "data" \notin DOMAIN last.ret
        /\ last.ret.error_status = 502
        /\ last.ret.error.error = "Failed to fetch region data"
        /\ last.writes = <<>>
        /\ cache = last.cache_before
        /\ Len(last.calls) = 1
        /\ last.draws = <<>>

C17_Witness ==
    /\ RegionDone
    /\ Len(last.calls) = 1
    /\ last.calls[1].outcome = 404
    /\ last.ret.error_status = 502

\* C18: if the country list fetched for the region is empty or not a list,
\* resolve_city_for_region returns the terminal 404 'No country data found for
\* region' in capital and in non-capital mode, with no states, cities or
\* geocoder call.
C18_EmptyCountryListIs404 ==
    (RegionDone /\ ~CountriesFetchFailed
                /\ (up.countries.kind # "list" \/ up.countries.items = <<>>)) =>
        /\ "error" \in DOMAIN last.ret
        /\ "data" \notin DOMAIN last.ret
        /\ last.ret.error_status = 404
        /\ last.ret.error.error = "No country data found for region"
        /\ OnlyCountriesFetched
        /\ last.draws = <<>>

C18_Witness ==
    /\ RegionDone
    /\ ~last.wants_capital
    /\ up.countries = JsonList(<<>>)
    /\ cfg.csc_key
    /\ Len(last.calls) = 1
    /\ last.calls[1].outcome = HTTP_OK
    /\ last.ret.error_status = 404

\* C19: with wants_capital and a country picked, resolve_city_for_region
\* returns that country's capital and ISO codes right after the country-list
\* step: no states fetch, no city-list fetch and no geocoder call.
C19_CapitalModeStopsEarly ==
    (RegionDone /\ last.wants_capital /\ ~CountriesFetchFailed
                /\ up.countries.kind = "list" /\ up.countries.items # <<>>) =>
        /\ "data" \in DOMAIN last.ret
        /\ \E i \in 1..Len(up.countries.items) :
             /\ last.draws[Len(last.draws)] = [of |-> "country", index |-> i]
             /\ last.ret.data =
                    [region |-> last.region,
                     city |-> IF "capital" \in DOMAIN up.countries.items[i]
                                 /\ Len(up.countries.items[i].capital) > 0
                              THEN up.countries.items[i].capital[1] ELSE Null,
                     iso2_country_code |-> up.countries.items[i].cca2,
                     iso3_country_code |-> up.countries.items[i].cca3]
        /\ OnlyCountriesFetched

C19_Witness ==
    /\ RegionDone
    /\ last.wants_capital
    /\ cfg.csc_key
    /\ "data" \in DOMAIN last.ret
    /\ last.ret.data.city = "Washington"
    /\ last.ret.data.iso2_country_code = <<"U", "S">>
    /\ Len(last.calls) = 1

\* C20: every successful result of resolve_city_for_region, in capital mode
\* and in non-capital mode, has a non-null city; without a capital and without
\* another city the result is a terminal 404.
C20_SuccessHasCity ==
    (RegionDone /\ "data" \in DOMAIN last.ret) => last.ret.data.city # Null

\* A country was picked: the country list is a non-empty list and reached the
\* resolver (from the cache or from the upstream).
CountryPicked == ~CountriesFetchFailed /\ NonEmptyList(up.countries)

StatesFetchFailed ==
    \E i \in 1..Len(last.calls) :
        last.calls[i].api = "csc_states" /\ last.calls[i].outcome # HTTP_OK

\* The states step yields nothing: no API key, a failed fetch, or a payload
\* that is not a non-empty list.
NoStates == ~cfg.csc_key \/ StatesFetchFailed \/ ~NonEmptyList(up.states)

\* C21: in non-capital mode with a country picked, when the states fetch
\* yields no states (empty list, missing API key or upstream failure) the
\* result is the terminal 404 'No states found for country': no city-list
\* fetch, no geocoder call and no fallback to the capital.
C21_NoStatesIs404 ==
    (RegionDone /\ ~last.wants_capital /\ CountryPicked /\ NoStates) =>
        /\ "error" \in DOMAIN last.ret
        /\ "data" \notin DOMAIN last.ret
        /\ last.ret.error_status = 404
        /\ last.ret.error.error = "No states found for country"
        /\ \A i \in 1..Len(last.calls) :
               last.calls[i].api \in {"restcountries_region", "csc_states"}
        /\ \A i \in 1..Len(last.draws) : last.draws[i].of = "country"

\* The picked country has a capital and the states fetch failed upstream.
C21_Witness ==
    /\ RegionDone
    /\ ~last.wants_capital
    /\ up.countries = JsonList(<<US>>)
    /\ cfg.csc_key
    /\ StatesFetchFailed
    /\ last.ret.error_status = 404
    /\ last.ret.error.country = <<"U", "S">>

\* The index drawn by the last random.choice over the given collection.
LastDraw(of) ==
    LET js == { j \in 1..Len(last.draws) : last.draws[j].of = of }
    IN  last.draws[CHOOSE j \in js : \A k \in js : k <= j].index

PickedCountry == up.countries.items[LastDraw("country")]

CapitalOf(country) ==
    IF "capital" \in DOMAIN country /\ Len(country.capital) > 0
    THEN country.capital[1] ELSE Null

\* Some tried state supplied a city the geocoder could place.
GeocodableFound ==
    \E i \in 1..Len(last.calls) :
        last.calls[i].api = "geocoder_check" /\ last.calls[i].outcome = "loc"

\* C22: in non-capital mode with at least one state: if no tried state yields
\* a geocodable city and the country has a capital, the result is a success
\* with city = the capital and state_name, iso2_state_code both null; and a
\* state-derived city comes with the name and code of the very state draw
\* whose city list supplied it.
C22_FallbackAndStateFields ==
    (RegionDone /\ ~last.wants_capital /\ CountryPicked /\ ~NoStates) =>
        /\ (~GeocodableFound /\ CapitalOf(PickedCountry) # Null) =>
              /\ "data" \in DOMAIN last.ret
              /\ last.ret.data.city = CapitalOf(PickedCountry)
              /\ last.ret.data.state_name = Null
              /\ last.ret.data.iso2_state_code = None
        /\ GeocodableFound =>
              /\ "data" \in DOMAIN last.ret
              /\ LET state == up.states.items[LastDraw("state")]
                     cities == WorldCities(state.iso2).items
                 IN  /\ last.ret.data.city = cities[LastDraw("city")].name
                     /\ last.ret.data.state_name = state.name
                     /\ last.ret.data.iso2_state_code = state.iso2
                     /\ last.calls[Len(last.calls)].api = "geocoder_check"
                     /\ last.calls[Len(last.calls)].city = last.ret.data.city
                     /\ last.calls[Len(last.calls)].state = state.name

\* Every tried state failed the geocoder check and the capital was returned.
C22_Witness ==
    /\ RegionDone
    /\ ~last.wants_capital
    /\ up.states = JsonList(<<CA, TX>>)
    /\ ~GeocodableFound
    /\ \E i \in 1..Len(last.calls) : last.calls[i].api = "geocoder_check"
    /\ "data" \in DOMAIN last.ret
    /\ last.ret.data.city = "Washington"
    /\ last.ret.data.state_name = Null

\* A second draw supplied the city after the first state's city failed.
C22_StateDerivedReached ==
    /\ RegionDone
    /\ GeocodableFound
    /\ Len(last.calls) >= 5
    /\ "data" \in DOMAIN last.ret
    /\ last.ret.data.city = "Austin"
    /\ last.ret.data.state_name = "Texas"

----------------------------------------------------------------------------
(* Properties of the geocoder's call sequence *)

\* The ordered attempt list for the request in last, written out.
ExpectedAttempts ==
    LET both == Truthy(last.state) /\ Truthy(last.country)
        full == last.city
                  \o (IF Truthy(last.state) THEN <<",", " ">> \o last.state ELSE <<>>)
                  \o (IF Truthy(last.country) THEN <<",", " ">> \o last.country ELSE <<>>)
    IN  << [query |-> full, country_codes |-> last.country] >>
          \o (IF both THEN << [query |-> last.city \o <<",", " ">> \o last.country,
                               country_codes |-> last.country] >>
                      ELSE <<>>)
          \o << [query |-> last.city, country_codes |-> None] >>

\* C27: the geocoder calls of _geocode_city are a prefix of the ordered
\* attempt list (full query biased to the country; 'city, country' only when
\* state and country are both given; the city alone without bias) and end at
\* the first location or non-timeout error; with state and country given and
\* only the third attempt succeeding there are exactly 3 calls.
C27_AttemptsArePrefix ==
    GeocodeDone =>
        /\ Len(last.calls) \in 1..Len(ExpectedAttempts)
        /\ \A i \in 1..Len(last.calls) :
              /\ last.calls[i].api = "geocoder"
              /\ last.calls[i].query = ExpectedAttempts[i].query
              /\ last.calls[i].country_codes = ExpectedAttempts[i].country_codes
              /\ i < Len(last.calls) => last.calls[i].outcome \in {"none", "timeout"}
        /\ Len(last.calls) < Len(ExpectedAttempts) =>
              last.calls[Len(last.calls)].outcome \in {"loc", "error"}
        /\ (Truthy(last.state) /\ Truthy(last.country) /\ Quiet(1) /\ Quiet(2)
              /\ last.script[3] = "loc") =>
              /\ Len(last.calls) = 3
              /\ last.ret = [location |-> StubLocation]

\* State and country given; only the city alone is found.
C27_Witness ==
    /\ GeocodeDone
    /\ last.state = <<"s">>
    /\ last.country = <<"U", "S">>
    /\ Len(last.calls) = 3
    /\ last.calls[1].outcome = "none"
    /\ last.calls[2].outcome = "timeout"
    /\ last.calls[3].query = last.city
    /\ last.calls[3].country_codes = None
    /\ last.ret = [location |-> StubLocation]

----------------------------------------------------------------------------
(* Properties of the sanitisation filter *)

SanitizeDone == pc = "done" /\ last.op = "_sanitize_html"

SafeTags == {"b", "strong", "i", "em", "br", "p", "ul", "ol", "li", "a"}

\* No tag outside the safe list, and no attribute but href, title and rel on
\* an anchor.
CleanToken(tok) ==
    /\ tok.kind \in {"start", "end"} => tok.tag \in SafeTags
    /\ tok.kind = "start" =>
          \A attr \in tok.attrs : tok.tag = "a" /\ attr.name \in {"href", "title", "rel"}

CleanValue(value) ==
    value.type = "str" => \A i \in 1..Len(value.tokens) : CleanToken(value.tokens[i])

\* A token without its attributes.
Bare(tok) == IF tok.kind = "start" THEN [kind |-> "start", tag |-> tok.tag] ELSE tok

BareSeq(tokens) == [i \in 1..Len(tokens) |-> Bare(tokens[i])]

\* C24: for every string input the output of _sanitize_html has no tag
\* outside {b, strong, i, em, br, p, ul, ol, li, a} and no attribute other
\* than href, title and rel on anchors; disallowed tags are removed, text and
\* allowed tags are kept in order, and a non-string value is returned
\* unchanged.
C24_SanitizedMarkupIsClean ==
    SanitizeDone =>
        IF last.value.type = "str"
        THEN /\ last.ret.type = "str"
             /\ CleanValue(last.ret)
             /\ BareSeq(last.ret.tokens) =
                   BareSeq(SelectSeq(last.value.tokens,
                                     LAMBDA tok : tok.kind = "text" \/ tok.tag \in SafeTags))
        ELSE last.ret = last.value

\* A script element and an anchor with a handler go in; the text and the
\* anchor with its href alone come out.
C24_Witness ==
    /\ SanitizeDone
    /\ last.value = Html(<< StartTag("script", {}), Text("x"),
                            StartTag("a", {Attr("href", "https"), Attr("onclick", "")}) >>)
    /\ last.ret = Html(<< Text("x"), StartTag("a", {Attr("href", "https")}) >>)

----------------------------------------------------------------------------
(* Properties of get_city_detail: the activities payload *)

ActivitiesKeyOfLast == <<"activities", StubLocation.latitude, StubLocation.longitude, last.radius>>

MarkupFields(activity) == {"description", "shortDescription"} \cap DOMAIN activity

\* C25: every activities payload in a get_city_detail response has passed
\* through the sanitisation filter, whether it was served from the activities
\* cache or fetched in that request: no description or shortDescription in
\* data.activities holds a disallowed tag or attribute.
C25_ResponseActivitiesAreSanitised ==
    (Done /\ Success /\ "activities" \in DOMAIN last.ret.data) =>
        \A i \in 1..Len(last.ret.data.activities.items) :
            \A k \in MarkupFields(last.ret.data.activities.items[i]) :
                CleanValue(last.ret.data.activities.items[i][k])

\* The payload came from the cache, where it lies unsanitised.
C25_Witness ==
    /\ Done
    /\ Success
    /\ CacheHas(last.cache_before, ActivitiesKeyOfLast)
    /\ ~CleanValue(last.cache_before[ActivitiesKeyOfLast].items[1].description)
    /\ \A i \in 1..Len(last.calls) : last.calls[i].api # "amadeus"
    /\ "activities" \in DOMAIN last.ret.data
    /\ Len(last.ret.data.activities.items) = 1
    /\ last.ret.data.activities.items[1].description =
           Html(<< Text("x"), StartTag("b", {}), Text("hi"), EndTag("b"),
                   StartTag("a", {Attr("href", "https")}), Text("more"), EndTag("a") >>)

----------------------------------------------------------------------------
(* Properties of the lazily initialised clients *)

\* C23: across any interleaving of concurrent requests each lazily
\* initialised client (amadeus, LLM) is constructed at most once per process,
\* and once the module-level reference is set it is never replaced.
C23_ClientConstructedOnce ==
    /\ \A name \in ClientNames : last.built[name] <= 1
    /\ ~last.replaced

----------------------------------------------------------------------------
(* Properties of the adapters' use of the cache *)

KeyedOps ==
    {"_get_places_by_coordinates", "_get_activities_by_coordinates", "_get_city_summary",
     "_get_country_details", "_get_countries_by_region", "_get_states_by_country",
     "_get_cities_by_state"}

AdapterDone ==
    pc = "done" /\ last.op \in KeyedOps \cup {"_get_weather_by_coordinates"}

\* The cache key of the invocation in last, written out.
KeyOfLast ==
    CASE last.op = "_get_places_by_coordinates" -> <<"places", 40, -74, last.radius>>
      [] last.op = "_get_activities_by_coordinates" -> <<"activities", 40, -74, last.radius>>
      [] last.op = "_get_city_summary" ->
            <<"city-summary", ":", "n", "y", ":", "s", ":", "u", "s">>
      [] last.op = "_get_country_details" -> <<"country-info", <<"u", "s">>>>
      [] last.op = "_get_countries_by_region" -> <<"countries", <<"a", "s">>>>
      [] last.op = "_get_states_by_country" -> <<"states", <<"u", "s">>>>
      [] last.op = "_get_cities_by_state" -> <<"state-cities", <<"u", "s">>, <<"c", "a">>>>

CacheHit == last.op \in KeyedOps /\ KeyOfLast \in DOMAIN last.cache_before

\* The adapters of the city detail resolver wrap the payload in {"data": ...};
\* the country-details, states and cities adapters return it as it is.
ReturnsEntry ==
    IF last.op \in {"_get_country_details", "_get_states_by_country", "_get_cities_by_state"}
    THEN last.ret = last.cache_before[KeyOfLast]
    ELSE last.ret = [data |-> last.cache_before[KeyOfLast]]

\* The provider is not switched off: its feature flag is on, and the
\* directory of states and cities has its API key.
SwitchedOn ==
    CASE last.op = "_get_places_by_coordinates" -> cfg.fsq_enabled
      [] last.op = "_get_activities_by_coordinates" -> cfg.amadeus_enabled
      [] last.op = "_get_city_summary" -> cfg.llm_enabled
      [] last.op \in {"_get_states_by_country", "_get_cities_by_state"} -> cfg.csc_key
      [] OTHER -> TRUE

\* C28 as stated: if the cache holds an entry under an adapter's key, the
\* adapter returns exactly that entry as a success, makes no outbound call and
\* performs no cache write (activities, places, summary, country details,
\* country list, states and cities adapters).
C28_HitReturnsEntry ==
    (AdapterDone /\ CacheHit) =>
        /\ ReturnsEntry
        /\ last.calls = <<>>
        /\ last.writes = <<>>

\* C28, amended: if the cache holds an entry under an adapter's key and the
\* provider is not switched off, the adapter returns exactly that entry as a
\* success, makes no outbound call and performs no cache write.
C28_HitReturnsEntryWhenOn ==
    (AdapterDone /\ CacheHit /\ SwitchedOn) =>
        /\ ReturnsEntry
        /\ last.calls = <<>>
        /\ last.writes = <<>>
        /\ cache = last.cache_before

\* A cached summary is returned while the upstream would have failed.
C28_Witness ==
    /\ AdapterDone
    /\ last.op = "_get_city_summary"
    /\ CacheHit
    /\ cfg.llm_enabled
    /\ last.status = 503
    /\ last.ret = [data |-> SummaryText]
    /\ last.calls = <<>>

\* The calls an identical invocation would make in the state reached, one
\* sequence per possible upstream answer.
ReinvokeCalls ==
    LET st == Fresh(cache, clients)
        lat == StubLocation.latitude
        lon == StubLocation.longitude
    IN  CASE last.op = "_get_places_by_coordinates" ->
               { _get_places_by_coordinates(lat, lon, last.radius, cfg,
                     [OkEnv EXCEPT !.fsq = last.status], st).st.calls }
          [] last.op = "_get_activities_by_coordinates" ->
               { _get_activities_by_coordinates(lat, lon, last.radius, cfg,
                     [OkEnv EXCEPT !.amadeus = last.status], st).st.calls }
          [] last.op = "_get_city_summary" ->
               { _get_city_summary(last.city, <<"s">>, <<"U", "S">>, cfg,
                     [OkEnv EXCEPT !.llm = last.status], st).st.calls }
          [] last.op = "_get_country_details" ->
               { _get_country_details(last.code,
                     [OkEnv EXCEPT !.details = last.status], st).st.calls }
          [] last.op = "_get_weather_by_coordinates" ->
               { _get_weather_by_coordinates(lat, lon,
                     [OkEnv EXCEPT !.weather = last.status], st).st.calls }
          [] last.op = "_get_countries_by_region" ->
               { r.st.calls : r \in _get_countries_by_region(last.region, DirectoryWorld, st) }
          [] last.op = "_get_states_by_country" ->
               { r.st.calls : r \in _get_states_by_country(last.code, cfg, DirectoryWorld, st) }
          [] last.op = "_get_cities_by_state" ->
               { r.st.calls : r \in _get_cities_by_state(last.code, last.state, cfg,
                                                         DirectoryWorld, st) }

\* The adapter's own upstream call is the last one it makes.
FetchedOk ==
    last.calls # <<>> /\ last.calls[Len(last.calls)].outcome = HTTP_OK

FetchFailed ==
    last.calls # <<>> /\ last.calls[Len(last.calls)].outcome # HTTP_OK

\* C29: for every provider adapter, the weather adapter included, after an
\* invocation that fetched successfully the payload is stored in the cache, so
\* that an identical invocation within the TTL is answered from the cache
\* with no outbound call.
C29_FetchedPayloadIsCached ==
    (AdapterDone /\ FetchedOk) =>
        /\ last.writes # <<>>
        /\ cache # last.cache_before
        /\ \A calls \in ReinvokeCalls : calls = <<>>

\* C30 as stated: when an adapter's upstream call fails, the adapter performs
\* no cache write, so the cache after the call equals the cache before it, and
\* the next identical invocation issues the upstream call again.
C30_FailureLeavesCacheAlone ==
    (AdapterDone /\ FetchFailed) =>
        /\ last.writes = <<>>
        /\ cache = last.cache_before
        /\ \A calls \in ReinvokeCalls : calls # <<>>

\* C30, amended: when an adapter's upstream call fails, nothing is stored
\* under the adapter's own key and no existing entry changes (the one write a
\* failing invocation can make is the country details that the summary
\* adapter fetched successfully before its text-generation call failed), and
\* the next identical invocation issues the failed upstream call again.
C30_FailureIsNotCached ==
    (AdapterDone /\ FetchFailed) =>
        /\ last.op \in KeyedOps => KeyOfLast \notin DOMAIN cache
        /\ \A i \in 1..Len(last.writes) :
              /\ last.op = "_get_city_summary"
              /\ last.writes[i] = <<"country-info", <<"u", "s">>>>
        /\ \A key \in DOMAIN last.cache_before :
              key \in DOMAIN cache /\ cache[key] = last.cache_before[key]
        /\ \A key \in DOMAIN cache \ DOMAIN last.cache_before :
              key = <<"country-info", <<"u", "s">>>>
        /\ \A calls \in ReinvokeCalls :
              /\ calls # <<>>
              /\ calls[Len(calls)].api = last.calls[Len(last.calls)].api

\* The text-generation call fails after the country details were fetched and
\* cached; the summary itself is not stored.
C30_Witness ==
    /\ AdapterDone
    /\ last.op = "_get_city_summary"
    /\ FetchFailed
    /\ last.ret.error_status = 503
    /\ last.writes = << <<"country-info", <<"u", "s">>>> >>
    /\ KeyOfLast \notin DOMAIN cache

----------------------------------------------------------------------------
(* Properties of the city-detail endpoint *)

ViewDone == pc = "done" /\ last.op = "views.get_city_detail"

\* includes values that are not empty and name no allowed section:
\* "bogus", "invalid,bogus", "," and " ".
UnknownIncludes ==
    { <<"b", "o", "g", "u", "s">>, <<"i", "n", "v", "a", "l", "i", "d", ",", "b", "o", "g", "u", "s">>,
      <<",">>, <<" ">> }

\* radius values that are not integers: "ab", "5.0" and "".
NonIntegerRadii == { <<"a", "b">>, <<"5", ".", "0">>, <<>> }

\* The resolver did not run: no cache access, no geocoder or provider call.
ResolverNotCalled ==
    /\ ~last.called
    /\ last.calls = <<>>
    /\ last.writes = <<>>
    /\ cache = last.cache_before

\* City, state and country pass _validate_input.
ValidPlace == last.city \in {<<"N", "y">>, <<"n", "y">>} /\ last.state = None

\* C26 as stated: at the city-detail endpoint a request whose includes
\* parameter is non-empty but names no allowed section is rejected with status
\* 400 and an allowed_includes list, and a non-integer radius is rejected with
\* status 400; in both cases the resolver is never called.
C26_BadRequestIs400 ==
    ViewDone =>
        /\ last.includes_param \in UnknownIncludes =>
              /\ last.status = 400
              /\ "allowed_includes" \in DOMAIN last.body
              /\ ResolverNotCalled
        /\ last.radius_param \in NonIntegerRadii =>
              /\ last.status = 400
              /\ ResolverNotCalled

\* C26, amended: for a request whose city, state and country pass input
\* validation, a non-integer radius is rejected with status 400, and with an
\* integer or absent radius an includes parameter that is non-empty but names
\* no allowed section is rejected with status 400 and the allowed_includes
\* list; in both cases the resolver is never called.
C26_ValidPlaceBadRequestIs400 ==
    (ViewDone /\ ValidPlace) =>
        /\ last.radius_param \in NonIntegerRadii =>
              /\ last.status = 400
              /\ last.body = [error |-> "radius must be an integer"]
              /\ ResolverNotCalled
        /\ (last.includes_param \in UnknownIncludes
               /\ last.radius_param \notin NonIntegerRadii) =>
              /\ last.status = 400
              /\ "allowed_includes" \in DOMAIN last.body
              /\ last.body.allowed_includes =
                     <<"base", "summary", "weather", "activities", "places">>
              /\ ResolverNotCalled

\* includes=invalid,bogus with radius=5, against a cache that holds entries.
C26_Witness ==
    /\ ViewDone
    /\ ValidPlace
    /\ last.includes_param = <<"i", "n", "v", "a", "l", "i", "d", ",", "b", "o", "g", "u", "s">>
    /\ last.radius_param = <<"5">>
    /\ last.cache_before # <<>>
    /\ last.status = 400
    /\ last.body.error = "No valid details requested"
    /\ ~last.called


----------------------------------------------------------------------------
(* Properties of the base record under concurrent requests *)

\* C31 as stated: within one TTL window and for any interleaving of requests,
\* the base record of a key is written to the cache once; concurrent requests
\* for the same key do not each geocode and write it.
C31_BaseWrittenOnce ==
    \A key \in BaseKeys : last.written[key] <= 1

\* C31 amended: a request whose cache read finds the base record makes no
\* geocoder call and no base cache write; a request whose read found nothing
\* writes the record at most once, after a geocoder call of its own, and a key
\* is written at most once per request in flight since it last expired.
C31_CachedBaseIsReused ==
    /\ \A t \in Workers :
          pc[t].at = "done" =>
             /\ pc[t].hit => pc[t].geocoder_calls = 0 /\ pc[t].base_writes = 0
             /\ pc[t].base_writes <= 1
             /\ pc[t].base_writes = 1 => ~pc[t].hit /\ pc[t].geocoder_calls >= 1
    /\ \A key \in BaseKeys : last.written[key] <= NumWorkers

\* One worker is answered from the record that another worker stored.
C31_Witness ==
    \E t, u \in Workers :
        /\ t # u
        /\ pc[t].at = "done" /\ pc[t].hit /\ ~pc[t].terminal
        /\ pc[u].at = "done" /\ pc[u].base_writes = 1
        /\ pc[t].key = pc[u].key
        /\ last.written[pc[t].key] = 1


----------------------------------------------------------------------------
(* Properties of the state loop of resolve_city_for_region *)

InLoop == pc \in {"loop", "done"} /\ last.op = "region_steps"

\* C32: in non-capital mode the resolver makes at most min(5, number of states)
\* state draws, at most one city-list fetch and one geocode check per draw, and
\* no draw, fetch or check after the first draw that found a geocodable city.
C32_DrawsAreBounded ==
    InLoop =>
        /\ last.count.draws <= Min(5, last.n_states)
        /\ last.count.fetches <= last.count.draws
        /\ last.count.checks <= last.count.draws
        /\ last.count.late = 0
        /\ last.wants_capital => last.count.draws = 0

\* Six states: five draws without a geocodable city.
C32_Witness ==
    /\ pc = "done" /\ last.op = "region_steps"
    /\ last.n_states = 6
    /\ last.count.draws = 5
    /\ last.count.checks = 5
    /\ ~last.found

\* Six states: the second draw finds a city and ends the loop.
C32_StoppedEarly ==
    /\ pc = "done" /\ last.op = "region_steps"
    /\ last.n_states = 6
    /\ last.found
    /\ last.count.draws = 2


----------------------------------------------------------------------------
(* Properties of _pick_country *)

PickDone == pc = "done" /\ last.op = "_pick_country"

PickedFromList ==
    IF NonEmptyList(last.countries)
    THEN \E i \in 1..Len(last.countries.items) : last.ret = last.countries.items[i]
    ELSE last.ret = NoneObj /\ last.draws = <<>>

HasEligible ==
    /\ NonEmptyList(last.countries)
    /\ \E i \in 1..Len(last.countries.items) : _eligible_country(last.countries.items[i])

\* C33 as stated: _pick_country returns a member of the list (None for an empty
\* or non-list input), and whenever the list holds an eligible country the
\* country returned is eligible.
C33_PickedIsEligible ==
    PickDone => /\ PickedFromList
                /\ HasEligible => _eligible_country(last.ret)

\* C33 amended: _pick_country returns a member of the list (None for an empty or
\* non-list input); it returns the first eligible country among its first
\* len(countries) draws, and when none of those draws is eligible it returns
\* one more draw, eligible or not.
C33_PickedIsFirstEligibleDraw ==
    PickDone =>
        /\ PickedFromList
        /\ NonEmptyList(last.countries) =>
             LET items == last.countries.items
                 draws == last.draws
             IN  /\ Len(draws) \in 1..(Len(items) + 1)
                 /\ last.ret = items[draws[Len(draws)].index]
                 /\ \A k \in 1..(Len(draws) - 1) :
                       ~_eligible_country(items[draws[k].index])
                 /\ Len(draws) <= Len(items) => _eligible_country(last.ret)

\* A list with an eligible country, every draw of the loop on the ineligible
\* one, and the ineligible one returned by the draw after the loop.
C33_Witness ==
    /\ PickDone
    /\ last.countries = JsonList(<<BV, US>>)
    /\ Len(last.draws) = 3
    /\ last.ret = BV


----------------------------------------------------------------------------
(* Properties of _sanitize_activities *)

SanitizeActivitiesDone == pc = "done" /\ last.op = "_sanitize_activities"

\* out is the record in with nothing but its description fields changed.
SameButMarkup(in, out) ==
    IF IsDict(in)
    THEN /\ IsDict(out)
         /\ DOMAIN out = DOMAIN in
         /\ \A k \in DOMAIN in \ {"description", "shortDescription"} : out[k] = in[k]
         /\ \A k \in MarkupFields(in) : out[k] = _sanitize_html(in[k])
    ELSE out = in

NotNull(item) == item # NoneObj

\* C34: _sanitize_activities changes only the description and shortDescription
\* fields of a record and leaves the records passed in as they were; null
\* entries of a list are dropped and the others keep their order; a single
\* record is sanitised as a record; any other input is returned unchanged.
C34_OnlyMarkupFieldsChange ==
    SanitizeActivitiesDone =>
        /\ last.data_after = last.data
        /\ IF IsList(last.data)
           THEN /\ IsList(last.ret)
                /\ Len(last.ret.items) = Len(SelectSeq(last.data.items, NotNull))
                /\ \A i \in 1..Len(last.ret.items) :
                      SameButMarkup(SelectSeq(last.data.items, NotNull)[i],
                                    last.ret.items[i])
           ELSE SameButMarkup(last.data, last.ret)

\* [TourA, null, TourB]: the null is dropped, TourA's descriptions are cleaned
\* and its price stays.
C34_Witness ==
    /\ SanitizeActivitiesDone
    /\ last.data = JsonList(<<TourA, NoneObj, TourB>>)
    /\ Len(last.ret.items) = 2
    /\ last.ret.items[1].description # TourA.description
    /\ last.ret.items[1].price = TourA.price
    /\ last.ret.items[2] = TourB


----------------------------------------------------------------------------
(* Properties of the weather alignment *)

AlignDone == pc = "done" /\ last.op = "weather_alignment"

\* The positions of the series whose entry parses, counted from 1.
Parseable ==
    IF IsList(last.series)
    THEN {i \in 1..Len(last.series.items) : _parse_iso(last.series.items[i]) # NoneObj}
    ELSE {}

Distance(i) ==
    Abs(_parse_iso(last.series.items[i]).instant - _parse_iso(last.current_ts).instant)

NoAlignment == _parse_iso(last.current_ts) = NoneObj \/ Parseable = {}

\* The current timestamp and the parseable entries are all naive or all aware.
Comparable ==
    NoAlignment \/ \A i \in Parseable :
                      _parse_iso(last.series.items[i]).aware =
                          _parse_iso(last.current_ts).aware

AlignmentFields == {"humidity", "precipitation", "cloudcover"}

Returned == "data" \in DOMAIN last.ret

NearestIsLowestMinimiser ==
    IF NoAlignment
    THEN /\ last.idx = NoneObj
         /\ Returned
         /\ \A f \in AlignmentFields : last.ret.data.current[f] = Null
    ELSE \E i \in Parseable :
            /\ \A j \in Parseable : Distance(i) <= Distance(j)
            /\ \A j \in Parseable : Distance(j) = Distance(i) => i <= j
            /\ last.idx = [idx |-> i - 1]
            /\ Returned
            /\ last.ret.data.current.humidity = last.ret.data.raw.hourly.relativehumidity_2m.items[i]
            /\ last.ret.data.current.precipitation = last.ret.data.raw.hourly.precipitation.items[i]
            /\ last.ret.data.current.cloudcover = last.ret.data.raw.hourly.cloudcover.items[i]

\* C35: _nearest_index returns the lowest index among the parseable entries of
\* the series that minimises the distance to the current timestamp, and None
\* when the current timestamp does not parse, the series is empty or not a
\* list, or no entry parses; the aligned humidity, precipitation and cloud
\* cover are the hourly values at that index.
C35_NearestIndex ==
    AlignDone => NearestIsLowestMinimiser

\* The same on the payloads whose timestamps can be subtracted from each other.
C35_NearestIndexWhenComparable ==
    (AlignDone /\ Comparable) => NearestIsLowestMinimiser

\* Current 11:00 between 10:00 and 12:00: the tie goes to index 0.
C35_TieReached ==
    /\ AlignDone
    /\ last.current_ts = Iso(11, "")
    /\ last.series = JsonList(<<Iso(25, ""), Iso(10, ""), Iso(12, "")>>)
    /\ last.idx = [idx |-> 1]
    /\ last.ret.data.current.humidity = "h1"

\* C36: for any successfully fetched weather payload, also one whose timestamps
\* do not parse or cannot be compared with each other, the weather adapter
\* returns a success, with null alignment fields where there is nothing to
\* align, and get_city_detail is not aborted.
C36_MalformedWeatherIsSuccess ==
    AlignDone =>
        /\ Returned
        /\ "data" \in DOMAIN last.detail
        /\ (NoAlignment \/ ~Comparable) =>
              \A f \in AlignmentFields : last.ret.data.current[f] = Null

\* The same on the payloads whose timestamps can be subtracted from each other.
C36_SuccessWhenComparable ==
    (AlignDone /\ Comparable) =>
        /\ Returned
        /\ "data" \in DOMAIN last.detail
        /\ NoAlignment => \A f \in AlignmentFields : last.ret.data.current[f] = Null

\* No timestamp parses and the alignment fields are null.
C36_NothingParses ==
    /\ AlignDone
    /\ last.series = JsonList(<<Iso(25, ""), [type |-> "NoneType"]>>)
    /\ Returned
    /\ last.ret.data.current.humidity = Null


----------------------------------------------------------------------------
(* Properties of the order of the section providers *)

OrderedDone == pc = "done" /\ last.op = "sections_in_order"

\* The position of a section's upstream call among the calls of the request.
CalledBefore(a, b) ==
    \E i, j \in 1..Len(last.calls_in_order) :
        /\ i < j
        /\ SectionOfApi(last.calls_in_order[i].api) = a
        /\ SectionOfApi(last.calls_in_order[j].api) = b

----------------------------------------------------------------------------
(* Properties of the radius *)

\* C38: every radius that the city-detail endpoint passes to get_city_detail,
\* and every radius sent to the paid-activities or points-of-interest
\* upstream, is an integer greater than or equal to 0.
C38_RadiusIsNonNegative ==
    ViewDone =>
        /\ last.called => RadiusOf(last.radius_param).value >= 0
        /\ \A i \in 1..Len(last.calls) :
              last.calls[i].api \in {"amadeus", "foursquare"} =>
                  last.calls[i].radius >= 0

\* The same for the requests whose radius parameter is absent or not negative.
C38_NonNegativeParamStaysNonNegative ==
    (ViewDone /\ last.radius_param # <<"-", "3">>) =>
        /\ last.called => RadiusOf(last.radius_param).value >= 0
        /\ \A i \in 1..Len(last.calls) :
              last.calls[i].api \in {"amadeus", "foursquare"} =>
                  last.calls[i].radius >= 0

\* radius=-3 reaches the paid-activities upstream.
C38_NegativeRadiusSent ==
    /\ ViewDone
    /\ last.radius_param = <<"-", "3">>
    /\ last.status = 200
    /\ \E i \in 1..Len(last.calls) :
          last.calls[i].api = "amadeus" /\ last.calls[i].radius = -3


----------------------------------------------------------------------------
(* Properties of the number of outbound calls *)

DetailCounted == pc = "done" /\ last.op = "detail_calls"

C39_RegionWorstCase ==
    /\ pc = "done" /\ last.op = "region_steps"
    /\ last.count.countries_fetches = 1
    /\ last.count.states_fetches = 1
    /\ last.count.checks = 5
    /\ last.count.draws = 5

====
